---------------------------- MODULE Spec2Model ----------------------------
(***************************************************************************)
(* The skill registry of src/core/__init__.py (SkillMetadata,              *)
(* SkillRegistry) and the filtering middleware of src/middleware.py.       *)
(*                                                                         *)
(* Python strings that the code takes apart (file stems, skill names,      *)
(* descriptions, search queries) are sequences of one-character strings,   *)
(* so that str.replace, str.lower and the `in` substring test are computed *)
(* and not assumed.  Strings the code only compares whole (tags,           *)
(* visibility, version, author) are TLA+ strings.  A Python dict is the    *)
(* sequence of its items in insertion order.  An optional value is <<>>    *)
(* (None, or an absent attribute) or <<v>>.                                *)
(***************************************************************************)
EXTENDS Integers, Sequences, FiniteSets, TLC

VARIABLES
    skills,        \* SkillRegistry._skills: name -> SkillMetadata
    tools,         \* SkillRegistry._tools: name -> tool
    modules,       \* SkillRegistry._modules: base skill name -> loaded module
    agent_input,   \* the dict the middleware was last called on
    last,          \* the last call: its arguments, its result, the registry before it
    registered,    \* the names register has stored so far
    nops,          \* the number of mutating calls made
    config,        \* the SkillSystemConfig last constructed, or None
    agent,         \* what create_skill_agent built, or None
    state,         \* a SkillStateFIFO or SkillStateAccumulative object, or None
    search_cache,  \* search.py's module-level _search_cache and the API calls made
    cli,           \* chat_cli.chat_loop: thread id, history, what reached the agent
    lru            \* an OptimizedSearchCache object, or None

vars == <<skills, tools, modules, agent_input, last, registered, nops, config, agent, state,
          search_cache, cli, lru>>

\* what the registry's own methods never touch
outside == <<config, agent, state>>

\* the example programs' state, which the skill system never touches
apps == <<search_cache, cli, lru>>

\* the registry, the configuration and the agent, which the example programs never touch
system == <<skills, tools, modules, agent_input, registered, nops, config, agent, state>>

InitApps ==
    /\ search_cache = [cache |-> << >>, calls |-> 0]
    /\ cli = [thread_id |-> 0, messages |-> << >>, forwarded |-> << >>, running |-> FALSE,
              turns |-> 0]
    /\ lru = << >>

-----------------------------------------------------------------------------
(* Optional values *)

None == << >>

Some(v) == <<v>>

IsNone(o) == Len(o) = 0

-----------------------------------------------------------------------------
(* Python str operations *)

Range(s) == {s[i] : i \in 1..Len(s)}

Digit == <<"0", "1", "2", "3", "4", "5", "6", "7", "8", "9">>

RECURSIVE DecStr(_)
\* str(n) of a non-negative int, as f"{idx}" formats it
DecStr(n) ==
    IF n < 10 THEN <<Digit[n + 1]>>
    ELSE DecStr(n \div 10) \o <<Digit[(n % 10) + 1]>>

\* s.startswith(p)
StartsWith(s, p) == Len(s) >= Len(p) /\ SubSeq(s, 1, Len(p)) = p

RECURSIVE StrReplace(_, _, _)
\* s.replace(old, new) for a non-empty old: every non-overlapping occurrence,
\* scanning from the left
StrReplace(s, old, new) ==
    IF Len(s) < Len(old) THEN s
    ELSE IF SubSeq(s, 1, Len(old)) = old
         THEN new \o StrReplace(SubSeq(s, Len(old) + 1, Len(s)), old, new)
         ELSE <<s[1]>> \o StrReplace(Tail(s), old, new)

\* c.lower() of one character
LowerChar(c) ==
    CASE c = "A" -> "a"
      [] c = "B" -> "b"
      [] c = "C" -> "c"
      [] c = "D" -> "d"
      [] c = "E" -> "e"
      [] c = "F" -> "f"
      [] c = "G" -> "g"
      [] c = "H" -> "h"
      [] c = "I" -> "i"
      [] c = "J" -> "j"
      [] c = "K" -> "k"
      [] c = "L" -> "l"
      [] c = "M" -> "m"
      [] c = "N" -> "n"
      [] c = "O" -> "o"
      [] c = "P" -> "p"
      [] c = "Q" -> "q"
      [] c = "R" -> "r"
      [] c = "S" -> "s"
      [] c = "T" -> "t"
      [] c = "U" -> "u"
      [] c = "V" -> "v"
      [] c = "W" -> "w"
      [] c = "X" -> "x"
      [] c = "Y" -> "y"
      [] c = "Z" -> "z"
      [] OTHER -> c

\* s.lower()
StrLower(s) == [i \in 1..Len(s) |-> LowerChar(s[i])]

\* needle in haystack (the empty needle is in every string)
StrIn(needle, haystack) ==
    \E i \in 0..(Len(haystack) - Len(needle)) :
        SubSeq(haystack, i + 1, i + Len(needle)) = needle

-----------------------------------------------------------------------------
(* Python dict, as the sequence of its items [k, v] in insertion order *)

EmptyDict == <<>>

DictKeys(d) == [i \in 1..Len(d) |-> d[i].k]

DictValues(d) == [i \in 1..Len(d) |-> d[i].v]

DictHas(d, key) == \E i \in 1..Len(d) : d[i].k = key

\* d[key] for a key that is present
DictAt(d, key) == d[CHOOSE i \in 1..Len(d) : d[i].k = key].v

\* mutant of DictGet: a missing key yields the dict's first value
DictGetFirst(d, key) ==
    IF DictHas(d, key) THEN Some(DictAt(d, key))
    ELSE IF Len(d) > 0 THEN Some(d[1].v) ELSE None

\* d.get(key): None when the key is missing
DictGet(d, key) == IF DictHas(d, key) THEN Some(DictAt(d, key)) ELSE None

\* mutant of DictSet: the dict is rebound to a new one holding only the item
DictSetRebind(d, key, value) == <<[k |-> key, v |-> value]>>

\* d[key] = value: overwrites in place, or appends a new item
DictSet(d, key, value) ==
    IF DictHas(d, key)
    THEN [i \in 1..Len(d) |-> IF d[i].k = key THEN [k |-> key, v |-> value] ELSE d[i]]
    ELSE Append(d, [k |-> key, v |-> value])

-----------------------------------------------------------------------------
(* SkillMetadata and tool objects *)

\* SkillMetadata(name=..., description=...): the dataclass with its defaults
SkillMetadata(name, description) ==
    [name |-> name, description |-> description, tags |-> <<>>,
     visibility |-> "public", version |-> "1.0.0", author |-> "",
     dependencies |-> <<>>]

\* getattr(tool, "name", default)
GetAttrName(tool, default) == IF IsNone(tool.name) THEN default ELSE tool.name[1]

\* tool.description or "": only for a tool that has the attribute
DescriptionOrEmpty(tool) ==
    IF tool.description.kind = "str" THEN tool.description.s ELSE <<>>

\* getattr(tool, "description", "") or ""
GetAttrDescription(tool) ==
    IF tool.description.kind = "str" THEN tool.description.s ELSE <<>>

\* reading the tool's description for the metadata of a discovered tool raises:
\* getattr(tool, "description", "") is evaluated when the module has no metadata or
\* its description is empty, and its default covers a missing attribute only
DescriptionRaises(tool, metadata) ==
    /\ tool.description.kind = "raise"
    /\ \/ metadata.kind \in {"none", "absent"}
       \/ metadata.kind = "meta" /\ Len(metadata.m[1].description) = 0

\* x.copy() if x else []
CopyOrEmpty(x) == IF Len(x) > 0 THEN x ELSE <<>>

\* a or b, for strings
StrOr(a, b) == IF Len(a) > 0 THEN a ELSE b

-----------------------------------------------------------------------------
(* SkillRegistry.register.  reg is [skills, tools, modules]; metadata is   *)
(* None or Some(m).  The result says whether the call raised; a call that  *)
(* raises (on reading tool.description) has stored nothing.                *)

\* mutant of register: the tool is not stored
register_no_tool(reg, name, tool, metadata) ==
    IF IsNone(metadata) /\ tool.description.kind \in {"absent", "raise"}
    THEN [reg |-> reg, raised |-> TRUE]
    ELSE LET m == IF IsNone(metadata)
                  THEN SkillMetadata(name, DescriptionOrEmpty(tool))
                  ELSE metadata[1]
         IN  [reg |-> [skills |-> DictSet(reg.skills, name, m),
                        tools |-> reg.tools,
                        modules |-> reg.modules],
              raised |-> FALSE]

\* mutant of register: a name that is already registered is left as it is
register_first_wins(reg, name, tool, metadata) ==
    IF IsNone(metadata) /\ tool.description.kind \in {"absent", "raise"}
    THEN [reg |-> reg, raised |-> TRUE]
    ELSE IF DictHas(reg.skills, name) THEN [reg |-> reg, raised |-> FALSE]
    ELSE LET m == IF IsNone(metadata)
                  THEN SkillMetadata(name, DescriptionOrEmpty(tool))
                  ELSE metadata[1]
         IN  [reg |-> [skills |-> DictSet(reg.skills, name, m),
                        tools |-> DictSet(reg.tools, name, tool),
                        modules |-> reg.modules],
              raised |-> FALSE]

register(reg, name, tool, metadata) ==
    IF IsNone(metadata) /\ tool.description.kind \in {"absent", "raise"}
    THEN [reg |-> reg, raised |-> TRUE]
    ELSE LET m == IF IsNone(metadata)
                  THEN SkillMetadata(name, DescriptionOrEmpty(tool))
                  ELSE metadata[1]
         IN  [reg |-> [skills |-> DictSet(reg.skills, name, m),
                        tools |-> DictSet(reg.tools, name, tool),
                        modules |-> reg.modules],
              raised |-> FALSE]

-----------------------------------------------------------------------------
(* SkillRegistry.discover_and_load.  A directory is [exists, files]: files *)
(* is the directory's entries in the order glob yields them.  A file is    *)
(* [stem, suffix, load, tools, tool, skill, get_tool, create_tool,         *)
(* metadata, METADATA]:                                                    *)
(*   load        "ok" | "raise" (exec_module raises) | "nospec"            *)
(*   tools       [kind: "absent" | "notlist" | "list", items]              *)
(*   tool, skill None (no such attribute) or Some(tool)                    *)
(*   get_tool, create_tool  [kind: "absent" | "raise" | "ok", ret]         *)
(*   metadata, METADATA  [kind: "absent" | "none" | "malformed" | "meta",  *)
(*               m]; "malformed" is an object that is no SkillMetadata     *)
(*               (reading .description raises AttributeError)              *)

\* skills_dir.glob(f"{module_name}_*.py"), on one entry
GlobMatches(f, module_name) ==
    f.suffix = ".py" /\ StartsWith(f.stem, module_name \o <<"_">>)

\* skill_file.stem.replace(f"{module_name}_", "")
BaseSkillName(stem, module_name) == StrReplace(stem, module_name \o <<"_">>, <<>>)

\* mutant of FindTools: the single `tool` export is looked at before `tools`
FindTools_tool_first(f) ==
    IF ~IsNone(f.tool) THEN [raised |-> FALSE, ts |-> <<f.tool[1]>>]
    ELSE IF f.tools.kind = "list" THEN [raised |-> FALSE, ts |-> f.tools.items]
    ELSE IF ~IsNone(f.skill) THEN [raised |-> FALSE, ts |-> <<f.skill[1]>>]
    ELSE IF f.get_tool.kind # "absent"
         THEN IF f.get_tool.kind = "raise" THEN [raised |-> TRUE, ts |-> <<>>]
              ELSE [raised |-> FALSE, ts |-> <<f.get_tool.ret[1]>>]
    ELSE IF f.create_tool.kind # "absent"
         THEN IF f.create_tool.kind = "raise" THEN [raised |-> TRUE, ts |-> <<>>]
              ELSE [raised |-> FALSE, ts |-> <<f.create_tool.ret[1]>>]
    ELSE [raised |-> FALSE, ts |-> <<>>]

\* tools_to_register of a loaded module: [raised, ts]
FindTools(f) ==
    IF f.tools.kind = "list" THEN [raised |-> FALSE, ts |-> f.tools.items]
    ELSE IF ~IsNone(f.tool) THEN [raised |-> FALSE, ts |-> <<f.tool[1]>>]
    ELSE IF ~IsNone(f.skill) THEN [raised |-> FALSE, ts |-> <<f.skill[1]>>]
    ELSE IF f.get_tool.kind # "absent"
         THEN IF f.get_tool.kind = "raise" THEN [raised |-> TRUE, ts |-> <<>>]
              ELSE [raised |-> FALSE, ts |-> <<f.get_tool.ret[1]>>]
    ELSE IF f.create_tool.kind # "absent"
         THEN IF f.create_tool.kind = "raise" THEN [raised |-> TRUE, ts |-> <<>>]
              ELSE [raised |-> FALSE, ts |-> <<f.create_tool.ret[1]>>]
    ELSE [raised |-> FALSE, ts |-> <<>>]

\* the module-level metadata: [kind: "none" | "malformed" | "meta", m]
FindMetadata(f) ==
    IF f.metadata.kind # "absent" THEN f.metadata
    ELSE IF f.METADATA.kind # "absent" THEN f.METADATA
    ELSE [kind |-> "none", m |-> None]

\* mutant of SkillName: a tool without a name gets the bare index
SkillName_bare_index(base_skill_name, tool, idx, n) ==
    IF n = 1 THEN base_skill_name
    ELSE base_skill_name \o <<"_">> \o GetAttrName(tool, DecStr(idx))

\* the name one tool of a file is registered under
SkillName(base_skill_name, tool, idx, n) ==
    IF n = 1 THEN base_skill_name
    ELSE base_skill_name \o <<"_">>
         \o GetAttrName(tool, <<"t", "o", "o", "l", "_">> \o DecStr(idx))

\* mutant of ToolMetadata: the clone keeps the module metadata's name
ToolMetadata_keep_name(skill_name, tool, metadata) ==
    IF metadata.kind = "none"
    THEN SkillMetadata(skill_name, GetAttrDescription(tool))
    ELSE LET m == metadata.m[1]
         IN  [name |-> m.name,
              description |-> StrOr(m.description, GetAttrDescription(tool)),
              tags |-> CopyOrEmpty(m.tags),
              visibility |-> m.visibility,
              version |-> m.version,
              author |-> m.author,
              dependencies |-> CopyOrEmpty(m.dependencies)]

\* the metadata one tool is registered with (metadata.kind is not "malformed")
ToolMetadata(skill_name, tool, metadata) ==
    IF metadata.kind = "none"
    THEN SkillMetadata(skill_name, GetAttrDescription(tool))
    ELSE LET m == metadata.m[1]
         IN  [name |-> skill_name,
              description |-> StrOr(m.description, GetAttrDescription(tool)),
              tags |-> CopyOrEmpty(m.tags),
              visibility |-> m.visibility,
              version |-> m.version,
              author |-> m.author,
              dependencies |-> CopyOrEmpty(m.dependencies)]

(* The scan carries st = [reg, count, log, errors, raised]: the registry,    *)
(* loaded_count, the register calls made so far (one entry each: the file's *)
(* position in the scan, the tool's index and the list's length, the name,  *)
(* the tool and the metadata registered), the positions of the files whose  *)
(* exception was logged, and whether an exception is propagating.           *)

\* mutant of RegisterTool: loaded_count counts the names that are new
RegisterTool_count_new(st, tool, idx, n, base_skill_name, metadata, where) ==
    IF metadata.kind = "malformed" \/ DescriptionRaises(tool, metadata)
    THEN [st EXCEPT !.raised = TRUE]
    ELSE LET skill_name == SkillName(base_skill_name, tool, idx, n)
             tool_metadata == ToolMetadata(skill_name, tool, metadata)
         IN  [st EXCEPT !.reg = register(@, skill_name, tool, Some(tool_metadata)).reg,
                        !.count = IF DictHas(st.reg.skills, skill_name) THEN @ ELSE @ + 1,
                        !.log = Append(@, [file |-> where, idx |-> idx, n |-> n,
                                           name |-> skill_name, tool |-> tool,
                                           metadata |-> tool_metadata])]

\* one iteration of the loop over enumerate(tools_to_register).  Reading the
\* attributes of a malformed metadata export raises, and so does reading the
\* description of a tool whose description raises; nothing else in the body
\* does (string formatting, register with a metadata).
RegisterTool(st, tool, idx, n, base_skill_name, metadata, where) ==
    IF metadata.kind = "malformed" \/ DescriptionRaises(tool, metadata)
    THEN [st EXCEPT !.raised = TRUE]
    ELSE LET skill_name == SkillName(base_skill_name, tool, idx, n)
             tool_metadata == ToolMetadata(skill_name, tool, metadata)
         IN  [st EXCEPT !.reg = register(@, skill_name, tool, Some(tool_metadata)).reg,
                        !.count = @ + 1,
                        !.log = Append(@, [file |-> where, idx |-> idx, n |-> n,
                                           name |-> skill_name, tool |-> tool,
                                           metadata |-> tool_metadata])]

RECURSIVE RegisterTools(_, _, _, _, _, _)
\* the loop over enumerate(tools_to_register), from index idx on
RegisterTools(st, ts, idx, base_skill_name, metadata, where) ==
    IF idx >= Len(ts) \/ st.raised THEN st
    ELSE RegisterTools(RegisterTool(st, ts[idx + 1], idx, Len(ts), base_skill_name,
                                    metadata, where),
                       ts, idx + 1, base_skill_name, metadata, where)

\* self._modules[base_skill_name] = module, after the loop
StoreModule(st, base_skill_name, f) ==
    IF st.raised THEN st
    ELSE [st EXCEPT !.reg.modules = DictSet(@, base_skill_name, f.stem)]

\* `if tools_to_register:` and what it guards; found is FindTools(f)
RegisterFound(st, found, f, module_name, where) ==
    IF found.raised THEN [st EXCEPT !.raised = TRUE]
    ELSE IF Len(found.ts) = 0 THEN st
    ELSE StoreModule(RegisterTools(st, found.ts, 0, BaseSkillName(f.stem, module_name),
                                   FindMetadata(f), where),
                     BaseSkillName(f.stem, module_name), f)

\* the body of the try for one file; where is the file's position in the scan
LoadFile(st, f, module_name, where) ==
    IF f.load = "nospec" THEN st
    ELSE IF f.load = "raise" THEN [st EXCEPT !.raised = TRUE]
    ELSE RegisterFound(st, FindTools(f), f, module_name, where)

\* mutant of Except: what the failed file had registered is taken back
Except_rollback(st, where) ==
    IF st.raised
    THEN LET mine == {st.log[j].name : j \in {k \in 1..Len(st.log) : st.log[k].file = where}}
         IN  [st EXCEPT !.raised = FALSE, !.errors = @ \cup {where},
                        !.reg.skills = SelectSeq(@, LAMBDA item : item.k \notin mine),
                        !.reg.tools = SelectSeq(@, LAMBDA item : item.k \notin mine),
                        !.count = Len(SelectSeq(st.log, LAMBDA e : e.file # where)),
                        !.log = SelectSeq(@, LAMBDA e : e.file # where)]
    ELSE st

\* mutant of Except: the error is logged and raised again
Except_reraise(st, where) ==
    IF st.raised THEN [st EXCEPT !.errors = @ \cup {where}]
    ELSE st

\* except Exception: the error is logged and the scan goes on
Except(st, where) ==
    IF st.raised THEN [st EXCEPT !.raised = FALSE, !.errors = @ \cup {where}]
    ELSE st

RECURSIVE ScanFiles(_, _, _, _)
\* the for loop over the files glob yields, from position i on, each file in
\* its own try/except
ScanFiles(st, files, module_name, i) ==
    IF i > Len(files) \/ st.raised THEN st
    ELSE ScanFiles(Except(LoadFile(st, files[i], module_name, i), i),
                   files, module_name, i + 1)

\* return loaded_count
Return(st, scanned) ==
    [reg |-> st.reg, ret |-> st.count, log |-> st.log, errors |-> st.errors,
     scanned |-> scanned, raised |-> st.raised]

\* discover_and_load(skills_dir, module_name): the registry, the value returned,
\* the register calls made, the files whose exception was logged, the files
\* glob yielded and whether the call raised
discover_and_load(reg, skills_dir, module_name) ==
    IF ~skills_dir.exists
    THEN [reg |-> reg, ret |-> 0, log |-> <<>>, errors |-> {}, scanned |-> <<>>,
          raised |-> FALSE]
    ELSE LET matched == SelectSeq(skills_dir.files, LAMBDA f : GlobMatches(f, module_name))
         IN  Return(ScanFiles([reg |-> reg, count |-> 0, log |-> <<>>, errors |-> {},
                               raised |-> FALSE],
                              matched, module_name, 1),
                    matched)

-----------------------------------------------------------------------------
(* The filter predicates: create_skill_agent's combined_filter, a visibility *)
(* check and-ed with an optional caller predicate (here: tag in meta.tags)   *)

\* visibility_filter(meta)
visibility_filter(fn, meta) ==
    IF ~fn.filter_by_visibility THEN TRUE
    ELSE meta.visibility \in fn.allowed_visibilities

\* mutant of combined_filter: a caller predicate replaces the visibility check
combined_filter_custom_only(fn, meta) ==
    IF ~IsNone(fn.custom)
    THEN fn.custom[1] \in Range(meta.tags)
    ELSE visibility_filter(fn, meta)

\* combined_filter(meta)
combined_filter(fn, meta) ==
    IF ~IsNone(fn.custom)
    THEN visibility_filter(fn, meta) /\ fn.custom[1] \in Range(meta.tags)
    ELSE visibility_filter(fn, meta)

-----------------------------------------------------------------------------
(* SkillRegistry read accessors; filter_fn is None or Some(fn) *)

\* mutant of list_skills: the filter is not applied
list_skills_unfiltered(sk, filter_fn) == DictKeys(sk)

list_skills(sk, filter_fn) ==
    IF IsNone(filter_fn) THEN DictKeys(sk)
    ELSE DictKeys(SelectSeq(sk, LAMBDA item : combined_filter(filter_fn[1], item.v)))

get_metadata(sk, skill_name) == DictGet(sk, skill_name)

\* mutant of SearchKeeps: a record that passes the query filter is kept
\* whatever its tags
SearchKeeps_either(metadata, query, tags) ==
    LET query_lower == StrLower(query)
        matches_query == \/ StrIn(query_lower, StrLower(metadata.name))
                         \/ StrIn(query_lower, StrLower(metadata.description))
        matches_tags == \E i \in 1..Len(tags[1]) : tags[1][i] \in Range(metadata.tags)
    IN  IF Len(query) > 0 /\ ~matches_query THEN FALSE
        ELSE IF Len(query) > 0 THEN TRUE
        ELSE IF ~IsNone(tags) /\ Len(tags[1]) > 0 /\ ~matches_tags THEN FALSE
        ELSE TRUE

\* one iteration of search's loop: whether the record is appended to results
SearchKeeps(metadata, query, tags) ==
    LET query_lower == StrLower(query)
        matches_query == \/ StrIn(query_lower, StrLower(metadata.name))
                         \/ StrIn(query_lower, StrLower(metadata.description))
        matches_tags == \E i \in 1..Len(tags[1]) : tags[1][i] \in Range(metadata.tags)
    IN  IF Len(query) > 0 /\ ~matches_query THEN FALSE
        ELSE IF ~IsNone(tags) /\ Len(tags[1]) > 0 /\ ~matches_tags THEN FALSE
        ELSE TRUE

\* search(query, tags); tags is None or Some(list)
search(sk, query, tags) ==
    SelectSeq(DictValues(sk), LAMBDA metadata : SearchKeeps(metadata, query, tags))

\* mutant of get_all_tools: the predicate is not applied
get_all_tools_unfiltered(sk, tl, filter_fn) == DictValues(tl)

get_all_tools(sk, tl, filter_fn) ==
    IF IsNone(filter_fn) THEN DictValues(tl)
    ELSE DictValues(SelectSeq(tl, LAMBDA item :
             DictHas(sk, item.k) /\ combined_filter(filter_fn[1], DictAt(sk, item.k))))

get_tool(tl, skill_name) == DictGet(tl, skill_name)

\* __len__
len(sk) == Len(sk)

\* __contains__
contains(sk, skill_name) == DictHas(sk, skill_name)

-----------------------------------------------------------------------------
(* SkillMiddleware.__call__: the input with its tools entry overwritten *)

\* mutant of middleware_call: the tools of the input are kept
middleware_call_cached(sk, tl, filter_fn, input) == input

middleware_call(sk, tl, filter_fn, input) ==
    LET filtered_tools == IF ~IsNone(filter_fn) THEN get_all_tools(sk, tl, filter_fn)
                          ELSE get_all_tools(sk, tl, None)
    IN  [input EXCEPT !.tools = filtered_tools]

-----------------------------------------------------------------------------
(* Bounds *)

\* mutating calls (register, discover_and_load, middleware) in one behaviour
MaxOps == 2

\* files in one scanned directory
MaxFiles == 2

\* tools in one module's `tools` list
MaxTools == 2

-----------------------------------------------------------------------------
(* Inputs: tools, metadata records, skill files, directories *)

Str(s) == [kind |-> "str", s |-> s]

\* a tool with a name and a docstring, as @tool builds it
ToolA == [id |-> "A", name |-> Some(<<"x">>), description |-> Str(<<"A", "b">>)]

\* a tool whose description is None
ToolB == [id |-> "B", name |-> Some(<<"y">>), description |-> [kind |-> "none", s |-> <<>>]]

\* an object with neither a name nor a description attribute
ToolC == [id |-> "C", name |-> None, description |-> [kind |-> "absent", s |-> <<>>]]

\* a second tool named like ToolA
ToolD == [id |-> "D", name |-> Some(<<"x">>), description |-> Str(<<"c">>)]

\* a tool with an empty description
ToolE == [id |-> "E", name |-> Some(<<"z">>), description |-> Str(<<>>)]

\* an object whose description is a property that raises when it is read
ToolF == [id |-> "F", name |-> Some(<<"w">>), description |-> [kind |-> "raise", s |-> <<>>]]

\* the tools that are BaseTool instances (they have a description attribute)
BaseTools == {ToolA, ToolB}

MetaMath ==
    [name |-> <<"c", "a">>, description |-> <<"B", "c">>, tags |-> <<"math", "utility">>,
     visibility |-> "public", version |-> "1.0.0", author |-> "Skill System",
     dependencies |-> <<>>]

MetaTime ==
    [name |-> <<"t">>, description |-> <<>>, tags |-> <<"time">>,
     visibility |-> "private", version |-> "2.0.0", author |-> "",
     dependencies |-> <<"ca">>]

Absent == [kind |-> "absent", m |-> None]

Meta(m) == [kind |-> "meta", m |-> Some(m)]

NoFactory == [kind |-> "absent", ret |-> None]

Factory(tool) == [kind |-> "ok", ret |-> Some(tool)]

RaisingFactory == [kind |-> "raise", ret |-> None]

NoTools == [kind |-> "absent", items |-> <<>>]

ToolsList(ts) == [kind |-> "list", items |-> ts]

\* a well-formed .py file with no export at all
EmptyFile(stem) ==
    [stem |-> stem, suffix |-> ".py", load |-> "ok", tools |-> NoTools, tool |-> None,
     skill |-> None, get_tool |-> NoFactory, create_tool |-> NoFactory,
     metadata |-> Absent, METADATA |-> Absent]

\* like skills/skill_example.py: one tool and a metadata
FileSingle == [EmptyFile(<<"s", "_", "a">>) EXCEPT !.tool = Some(ToolA), !.metadata = Meta(MetaMath)]

\* like skills/skill_time.py: a tools list and, for compatibility, a tool
FileMulti ==
    [EmptyFile(<<"s", "_", "b">>) EXCEPT !.tools = ToolsList(<<ToolA, ToolC>>),
                                        !.tool = Some(ToolA), !.METADATA = Meta(MetaTime)]

\* a file that raises on import
FileBad == [EmptyFile(<<"s", "_", "c">>) EXCEPT !.load = "raise", !.tool = Some(ToolB)]

CoreFiles == {FileSingle, FileMulti, FileBad}

\* the sequences over S of length at most n
SeqsUpTo(S, n) == UNION {[1..k -> S] : k \in 0..n}

InsertAt(seq, i, x) == SubSeq(seq, 1, i) \o <<x>> \o SubSeq(seq, i + 1, Len(seq))

Stems ==
    {<<"s", "_", "a">>, <<"s", "_">>, <<"s", "_", "a", "s", "_", "b">>,
     <<"s", "_", "s", "_", "a">>, <<"t", "s", "_", "a">>, <<"a", "_", "s">>}

ModuleNames == {<<"s">>, <<"t", "s">>}

\* every stem, with one tool and with several
StemFiles ==
    {[EmptyFile(st) EXCEPT !.tool = Some(ToolB)] : st \in Stems}
    \cup {[EmptyFile(st) EXCEPT !.tools = ToolsList(<<ToolA, ToolB>>)] : st \in Stems}

\* every combination of the five exports, each yielding a tool of its own
ExportFiles ==
    {[EmptyFile(<<"s", "_", "a">>) EXCEPT !.tools = ts, !.tool = t, !.skill = sk,
                                         !.get_tool = g, !.create_tool = c] :
        ts \in {NoTools, ToolsList(<<ToolA>>)}, t \in {None, Some(ToolB)},
        sk \in {None, Some(ToolC)}, g \in {NoFactory, Factory(ToolD)},
        c \in {NoFactory, Factory(ToolE)}}

\* every tools export, alone and over a tool export, and the raising factories
ToolsFiles ==
    {[EmptyFile(<<"s", "_", "b">>) EXCEPT !.tools = ts, !.tool = t] :
        ts \in {[kind |-> "notlist", items |-> <<>>]}
               \cup {ToolsList(l) : l \in SeqsUpTo({ToolC, ToolD}, MaxTools)},
        t \in {None, Some(ToolB)}}
    \cup {[EmptyFile(<<"s", "_", "b">>) EXCEPT !.get_tool = g, !.create_tool = c] :
        g \in {NoFactory, RaisingFactory}, c \in {RaisingFactory, Factory(ToolE)}}

MetadataExports == {Absent, [kind |-> "none", m |-> None],
                    [kind |-> "malformed", m |-> None], Meta(MetaMath), Meta(MetaTime)}

\* every metadata export, alone and over a METADATA export, for one tool and
\* for several
MetadataFiles ==
    {[EmptyFile(<<"s", "_", "c">>) EXCEPT !.tool = t, !.tools = ts,
                                         !.metadata = m1, !.METADATA = m2] :
        t \in {Some(ToolA)}, ts \in {NoTools, ToolsList(<<ToolC, ToolE>>)},
        m1 \in MetadataExports, m2 \in {Absent, Meta(MetaTime)}}

\* tools lists in which a tool's description raises when read, first or after another
\* tool, with no metadata, with a metadata that has a description and with one that
\* has none
PartialFiles ==
    {[EmptyFile(<<"s", "_", "b">>) EXCEPT !.tools = ToolsList(l), !.metadata = m] :
        l \in {<<ToolA, ToolF>>, <<ToolF, ToolA>>, <<ToolF>>},
        m \in {Absent, Meta(MetaMath), Meta(MetaTime)}}

\* files that are not loaded: no import spec, or not a .py file
OtherFiles ==
    {[FileSingle EXCEPT !.load = "nospec"], [FileSingle EXCEPT !.suffix = ".txt"]}

WideFiles ==
    StemFiles \cup ExportFiles \cup ToolsFiles \cup MetadataFiles \cup PartialFiles
    \cup OtherFiles

Dir(files) == [exists |-> TRUE, files |-> files]

NoDir == [exists |-> FALSE, files |-> <<>>]

\* the directories scanned in the registry's life
MainDirs == {NoDir, Dir(<<FileSingle>>), Dir(<<FileBad, FileMulti>>)}

\* the directories of one scan: core files in any order, and any one file
\* among them at any position
WideDirs ==
    {NoDir} \cup {Dir(fs) : fs \in SeqsUpTo(CoreFiles, MaxFiles)}
    \cup {Dir(InsertAt(fs, i, f)) :
            <<fs, i>> \in {<<q, j>> \in SeqsUpTo(CoreFiles, MaxFiles - 1) \X (0..MaxFiles) :
                               j <= Len(q)},
            f \in WideFiles}

RegisterNames == {<<"a">>, <<"c", "a">>}

RegisterMetadata == {None, Some(MetaTime)}

FilterFns ==
    {[filter_by_visibility |-> TRUE, allowed_visibilities |-> {"public"}, custom |-> None],
     [filter_by_visibility |-> TRUE, allowed_visibilities |-> {"public"}, custom |-> Some("math")],
     [filter_by_visibility |-> FALSE, allowed_visibilities |-> {"public"}, custom |-> Some("time")],
     [filter_by_visibility |-> FALSE, allowed_visibilities |-> {"public"}, custom |-> None],
     [filter_by_visibility |-> TRUE, allowed_visibilities |-> {"private", "internal"}, custom |-> None],
     [filter_by_visibility |-> TRUE, allowed_visibilities |-> {}, custom |-> Some("time")]}

OptionalFilterFns == {None} \cup {Some(fn) : fn \in FilterFns}

PublicOnly ==
    [filter_by_visibility |-> TRUE, allowed_visibilities |-> {"public"}, custom |-> None]

MainFilterFns == {None, Some(PublicOnly)}

MainQueries == {<<>>, <<"A">>}

MainTagLists == {None, Some(<<"time">>)}

Queries == {<<>>, <<"a">>, <<"A", "B">>, <<"c">>, <<"b", "c">>, <<"x">>}

TagLists == {None, Some(<<>>), Some(<<"math">>), Some(<<"date", "time">>), Some(<<"date">>)}

LookupNames == {<<"a">>, <<"q">>}

\* what a turn's input holds when the middleware is called
AgentInputs == {[tools |-> <<ToolB>>, messages |-> <<"hi">>]}

-----------------------------------------------------------------------------
(* The state machine *)

Reg == [skills |-> skills, tools |-> tools, modules |-> modules]

EmptyReg == [skills |-> EmptyDict, tools |-> EmptyDict, modules |-> EmptyDict]

\* SkillRegistry.__init__
Init ==
    /\ skills = EmptyDict
    /\ tools = EmptyDict
    /\ modules = EmptyDict
    /\ agent_input = [tools |-> <<>>, messages |-> <<>>]
    /\ last = [op |-> "init"]
    /\ registered = {}
    /\ nops = 0
    /\ config = None
    /\ agent = None
    /\ state = None
    /\ InitApps

SetReg(reg) ==
    /\ skills' = reg.skills
    /\ tools' = reg.tools
    /\ modules' = reg.modules

RegisterCall(name, tool, metadata) ==
    LET r == register(Reg, name, tool, metadata)
    IN  /\ nops < MaxOps
        /\ SetReg(r.reg)
        /\ last' = [op |-> "register", name |-> name, tool |-> tool,
                    metadata |-> metadata, raised |-> r.raised, pre |-> Reg]
        /\ registered' = IF r.raised THEN registered ELSE registered \cup {name}
        /\ nops' = nops + 1
        /\ UNCHANGED <<agent_input, outside, apps>>

DiscoverCall(skills_dir, module_name) ==
    LET r == discover_and_load(Reg, skills_dir, module_name)
    IN  /\ nops < MaxOps
        /\ SetReg(r.reg)
        /\ last' = [op |-> "discover_and_load", skills_dir |-> skills_dir,
                    module_name |-> module_name, ret |-> r.ret, log |-> r.log,
                    errors |-> r.errors, scanned |-> r.scanned, raised |-> r.raised,
                    pre |-> Reg]
        /\ registered' = registered \cup {r.log[i].name : i \in 1..Len(r.log)}
        /\ nops' = nops + 1
        /\ UNCHANGED <<agent_input, outside, apps>>

Register ==
    \E name \in RegisterNames, tool \in BaseTools, metadata \in RegisterMetadata :
        RegisterCall(name, tool, metadata)

DiscoverAndLoad == \E skills_dir \in MainDirs : DiscoverCall(skills_dir, <<"s">>)

\* mutant of ReadCall: the accessor pops the oldest entry
ReadCallPop(record) ==
    /\ last' = record
    /\ skills' = SubSeq(skills, 2, Len(skills))
    /\ tools' = SubSeq(tools, 2, Len(tools))
    /\ UNCHANGED <<modules, agent_input, registered, nops, outside, apps>>

ReadCall(record) ==
    /\ last' = record
    /\ UNCHANGED <<skills, tools, modules, agent_input, registered, nops, outside, apps>>

ListSkills ==
    \E filter_fn \in MainFilterFns :
        ReadCall([op |-> "list_skills", filter_fn |-> filter_fn,
                  ret |-> list_skills(skills, filter_fn)])

GetMetadata ==
    \E skill_name \in LookupNames :
        ReadCall([op |-> "get_metadata", skill_name |-> skill_name,
                  ret |-> get_metadata(skills, skill_name)])

Search ==
    \E query \in MainQueries, tags \in MainTagLists :
        ReadCall([op |-> "search", query |-> query, tags |-> tags,
                  ret |-> search(skills, query, tags)])

GetAllTools ==
    \E filter_fn \in MainFilterFns :
        ReadCall([op |-> "get_all_tools", filter_fn |-> filter_fn,
                  ret |-> get_all_tools(skills, tools, filter_fn)])

GetTool ==
    \E skill_name \in LookupNames :
        ReadCall([op |-> "get_tool", skill_name |-> skill_name,
                  ret |-> get_tool(tools, skill_name)])

LenCall == ReadCall([op |-> "len", ret |-> len(skills)])

Contains ==
    \E skill_name \in LookupNames :
        ReadCall([op |-> "contains", skill_name |-> skill_name,
                  ret |-> contains(skills, skill_name)])

Middleware ==
    \E filter_fn \in MainFilterFns, input \in AgentInputs :
        /\ nops < MaxOps
        /\ agent_input' = middleware_call(skills, tools, filter_fn, input)
        /\ last' = [op |-> "middleware", filter_fn |-> filter_fn, input |-> input,
                    ret |-> middleware_call(skills, tools, filter_fn, input)]
        /\ nops' = nops + 1
        /\ UNCHANGED <<skills, tools, modules, registered, outside, apps>>

Next ==
    \/ Register
    \/ DiscoverAndLoad
    \/ ListSkills
    \/ GetMetadata
    \/ Search
    \/ GetAllTools
    \/ GetTool
    \/ LenCall
    \/ Contains
    \/ Middleware

Spec == Init /\ [][Next]_vars

-----------------------------------------------------------------------------
(* One scan of a directory, over every kind of file, on an empty registry  *)
(* and on one that already holds the name "a"                              *)

InitDiscover ==
    /\ \E reg \in {EmptyReg, register(EmptyReg, <<"a">>, ToolB, None).reg} :
          /\ skills = reg.skills
          /\ tools = reg.tools
          /\ modules = reg.modules
          /\ registered = Range(DictKeys(reg.skills))
    /\ agent_input = [tools |-> <<>>, messages |-> <<>>]
    /\ last = [op |-> "init"]
    /\ nops = 0
    /\ config = None
    /\ agent = None
    /\ state = None
    /\ InitApps

DiscoverWide ==
    \E skills_dir \in WideDirs, module_name \in ModuleNames :
        nops = 0 /\ DiscoverCall(skills_dir, module_name)

NextDiscover == DiscoverWide

SpecDiscover == InitDiscover /\ [][NextDiscover]_vars

-----------------------------------------------------------------------------
(* The read accessors, over every query and tag list, on the registries    *)
(* that one scan followed by at most one register call builds              *)

ReadRegs ==
    LET scanned == {discover_and_load(EmptyReg, skills_dir, <<"s">>).reg :
                       skills_dir \in {NoDir} \cup {Dir(fs) : fs \in SeqsUpTo(CoreFiles, MaxFiles)}}
    IN  scanned \cup {register(reg, name, tool, metadata).reg :
                         reg \in scanned, name \in RegisterNames, tool \in BaseTools,
                         metadata \in {None, Some(MetaMath), Some(MetaTime)}}

InitRead ==
    /\ \E reg \in ReadRegs :
          /\ skills = reg.skills
          /\ tools = reg.tools
          /\ modules = reg.modules
          /\ registered = Range(DictKeys(reg.skills))
    /\ agent_input = [tools |-> <<>>, messages |-> <<>>]
    /\ last = [op |-> "init"]
    /\ nops = 0
    /\ config = None
    /\ agent = None
    /\ state = None
    /\ InitApps

SearchWide ==
    \E query \in Queries, tags \in TagLists :
        ReadCall([op |-> "search", query |-> query, tags |-> tags,
                  ret |-> search(skills, query, tags)])

ListSkillsWide ==
    \E filter_fn \in OptionalFilterFns :
        ReadCall([op |-> "list_skills", filter_fn |-> filter_fn,
                  ret |-> list_skills(skills, filter_fn)])

GetAllToolsWide ==
    \E filter_fn \in OptionalFilterFns :
        ReadCall([op |-> "get_all_tools", filter_fn |-> filter_fn,
                  ret |-> get_all_tools(skills, tools, filter_fn)])

NextRead ==
    \/ SearchWide
    \/ ListSkillsWide
    \/ GetAllToolsWide

SpecRead == InitRead /\ [][NextRead]_vars

-----------------------------------------------------------------------------
(* Python values of more than one type: a str, a bool, None or a Path *)

PyStr(s) == [t |-> "str", s |-> s, b |-> FALSE]

PyBool(b) == [t |-> "bool", s |-> "", b |-> b]

PyNone == [t |-> "NoneType", s |-> "", b |-> FALSE]

\* Path(s)
PyPath(s) == [t |-> "Path", s |-> s, b |-> FALSE]

\* the truth value Python's `if` and `and` give a value
Truthy(v) ==
    IF v.t = "bool" THEN v.b
    ELSE IF v.t = "str" THEN v.s # ""
    ELSE v.t = "Path"

-----------------------------------------------------------------------------
(* SkillSystemConfig of src/config.py.  skill_module_name "skill" is written *)
(* <<"s">>, in the one-letter alphabet of the file stems.                    *)

\* the dataclass's fields
Fields == {"skills_dir", "skill_module_name", "state_mode", "auto_discover",
           "filter_by_visibility", "allowed_visibilities", "middleware_enabled",
           "verbose", "log_level", "max_concurrent_skills"}

\* the field defaults
DefaultConfig ==
    [skills_dir |-> PyPath("./skills"), skill_module_name |-> <<"s">>,
     state_mode |-> PyStr("replace"), auto_discover |-> PyBool(TRUE),
     filter_by_visibility |-> PyBool(TRUE), allowed_visibilities |-> {"public"},
     middleware_enabled |-> PyBool(TRUE), verbose |-> PyBool(FALSE)]

valid_modes == <<PyStr("replace"), PyStr("accumulate"), PyStr("fifo")>>

Raise(exception) == [raised |-> exception, config |-> None]

\* mutant of post_init: state_mode is not validated
post_init_unchecked(self) ==
    [raised |-> "",
     config |-> Some(IF self.skills_dir.t = "str"
                     THEN [self EXCEPT !.skills_dir = PyPath(self.skills_dir.s)]
                     ELSE self)]

\* __post_init__
post_init(self) ==
    IF self.state_mode \notin Range(valid_modes) THEN Raise("ValueError")
    ELSE [raised |-> "",
          config |-> Some(IF self.skills_dir.t = "str"
                          THEN [self EXCEPT !.skills_dir = PyPath(self.skills_dir.s)]
                          ELSE self)]

\* the fields after the generated __init__ has assigned the first i keywords
SetFields(self, data, i) ==
    LET F[j \in 0..i] == IF j = 0 THEN self
                         ELSE [F[j - 1] EXCEPT ![data[j].k] = data[j].v]
    IN  F[i]

\* SkillSystemConfig(**data): data is a dict of keyword arguments
SkillSystemConfig(data) ==
    IF \E i \in 1..Len(data) : data[i].k \notin Fields THEN Raise("TypeError")
    ELSE post_init(SetFields(DefaultConfig, data, Len(data)))

\* from_dict
from_dict(data) ==
    SkillSystemConfig([i \in 1..Len(data) |->
        IF data[i].k = "skills_dir" /\ data[i].v.t = "str"
        THEN [data[i] EXCEPT !.v = PyPath(data[i].v.s)]
        ELSE data[i]])

\* a JSON value as the Python value json.loads yields for it
JsonToPy(value) ==
    IF value.j = "string" THEN PyStr(value.s)
    ELSE IF value.j = "true" THEN PyBool(TRUE)
    ELSE IF value.j = "false" THEN PyBool(FALSE)
    ELSE PyNone

\* json.loads of a text that is an object
json_loads(doc) == [i \in 1..Len(doc.members) |->
                       [k |-> doc.members[i].k, v |-> JsonToPy(doc.members[i].v)]]

\* from_json; a text that is no JSON raises json.JSONDecodeError
from_json(json_str) ==
    IF json_str.kind # "object" THEN Raise("JSONDecodeError")
    ELSE from_dict(json_loads(json_str))

\* load; path is [exists, text]
load(path) ==
    IF ~path.exists THEN Raise("FileNotFoundError")
    ELSE from_json(path.text)

-----------------------------------------------------------------------------
(* create_skill_agent of src/AgentSkill.py.  The host's create_agent is      *)
(* host: for each of the three keyword sets it is called with, whether it    *)
(* returns an agent ("ok"), rejects the keywords ("TypeError") or fails      *)
(* otherwise ("RuntimeError").                                               *)

\* the directories on disk
Disk(path) ==
    IF path.s = "./skills" THEN Dir(<<FileSingle, FileMulti>>)
    ELSE IF path.s = "./one" THEN Dir(<<FileSingle>>)
    ELSE NoDir

\* steps 3-4: a new registry, scanned when auto_discover is set and the
\* directory exists
LoadSkills(cfg) ==
    IF Truthy(cfg.auto_discover) /\ Disk(cfg.skills_dir).exists
    THEN discover_and_load(EmptyReg, Disk(cfg.skills_dir), cfg.skill_module_name).reg
    ELSE EmptyReg

\* step 5: the closure combined_filter, as the values it reads
CombinedFilter(cfg, filter_fn) ==
    [filter_by_visibility |-> Truthy(cfg.filter_by_visibility),
     allowed_visibilities |-> cfg.allowed_visibilities,
     custom |-> filter_fn]

\* step 7: the state class, None where the code raises ValueError
SelectState(state_mode) ==
    IF state_mode = PyStr("replace") THEN Some("SkillState")
    ELSE IF state_mode = PyStr("accumulate") THEN Some("SkillStateAccumulative")
    ELSE IF state_mode = PyStr("fifo") THEN Some("SkillStateFIFO")
    ELSE None

\* step 8: middleware_list; a SkillMiddleware is the filter it was given
MiddlewareList(cfg, combined) ==
    IF Truthy(cfg.middleware_enabled)
    THEN <<[filter_fn |-> Some(combined), verbose |-> cfg.verbose]>>
    ELSE <<>>

\* generate_system_prompt: the lines of the skill list
generate_system_prompt(available_skill_names) ==
    IF Len(available_skill_names) > 0
    THEN [i \in 1..Len(available_skill_names) |-> <<"-", " ">> \o available_skill_names[i]]
    ELSE <<<<"No skills are currently available.">>>>

\* the host's create_agent, called with the keywords of one tier
create_agent(host, tier, tl, middleware, state_schema, system_prompt) ==
    IF host[tier] = "ok"
    THEN [raised |-> "",
          agent |-> Some([tier |-> tier, tools |-> tl, middleware |-> middleware,
                          state_schema |-> state_schema, system_prompt |-> system_prompt])]
    ELSE [raised |-> host[tier], agent |-> None]

Attempted(r, attempts) == [raised |-> r.raised, agent |-> r.agent, attempts |-> attempts]

\* the last fallback: no middleware, no state schema, nothing caught
TryPlain(host, tl, system_prompt) ==
    Attempted(create_agent(host, "plain", tl, None, None, system_prompt),
              <<"full", "middleware", "plain">>)

\* mutant of TryMiddleware: the second fallback is taken at once
TryMiddlewareSkipped(host, tl, middleware_list, system_prompt) ==
    TryPlain(host, tl, system_prompt)

\* the first fallback: middleware, no state schema
TryMiddleware(host, tl, middleware_list, system_prompt) ==
    IF host["middleware"] = "TypeError" THEN TryPlain(host, tl, system_prompt)
    ELSE Attempted(create_agent(host, "middleware", tl, Some(middleware_list), None,
                                system_prompt),
                   <<"full", "middleware">>)

\* mutant of TryFull: any failure of the first attempt is caught
TryFullCatchAll(host, tl, middleware_list, state_schema, system_prompt) ==
    IF host["full"] # "ok" THEN TryMiddleware(host, tl, middleware_list, system_prompt)
    ELSE Attempted(create_agent(host, "full", tl, Some(middleware_list), Some(state_schema),
                                system_prompt),
                   <<"full">>)

\* step 10: the three attempts
TryFull(host, tl, middleware_list, state_schema, system_prompt) ==
    IF host["full"] = "TypeError" THEN TryMiddleware(host, tl, middleware_list, system_prompt)
    ELSE Attempted(create_agent(host, "full", tl, Some(middleware_list), Some(state_schema),
                                system_prompt),
                   <<"full">>)

\* steps 6-11 on the registry of steps 3-4
Assemble(cfg, combined, reg, host) ==
    LET all_tools == get_all_tools(reg.skills, reg.tools, Some(combined))
        available_skills == list_skills(reg.skills, Some(combined))
        state_schema == SelectState(cfg.state_mode)
        built == TryFull(host, all_tools, MiddlewareList(cfg, combined),
                         state_schema[1], generate_system_prompt(available_skills))
    IN  IF IsNone(state_schema)
        THEN [raised |-> "ValueError", agent |-> None, attempts |-> <<>>, reg |-> reg,
              all_tools |-> all_tools, available_skills |-> <<>>, state_schema |-> None]
        ELSE [raised |-> built.raised,
              agent |-> IF built.raised = ""
                        THEN Some([agent |-> built.agent[1], config |-> cfg])
                        ELSE None,
              attempts |-> built.attempts, reg |-> reg, all_tools |-> all_tools,
              available_skills |-> available_skills, state_schema |-> state_schema]

\* create_skill_agent(model, cfg, filter_fn=filter_fn)
create_skill_agent(cfg, filter_fn, host) ==
    Assemble(cfg, CombinedFilter(cfg, filter_fn), LoadSkills(cfg), host)

-----------------------------------------------------------------------------
(* Inputs of the assembly *)

Item(k, v) == [k |-> k, v |-> v]

\* keyword arguments: any of state_mode, skills_dir, the two switches and an
\* unknown keyword
ConfigData ==
    {a \o b \o c \o d \o e :
        a \in {<<>>} \cup {<<Item("state_mode", v)>> :
                 v \in {PyStr(s) : s \in {"replace", "accumulate", "fifo", "FIFO", "", "ring"}}
                       \cup {PyNone}},
        b \in {<<>>, <<Item("skills_dir", PyStr("./one"))>>,
               <<Item("skills_dir", PyPath("./missing"))>>},
        c \in {<<>>, <<Item("middleware_enabled", PyBool(FALSE))>>},
        d \in {<<>>, <<Item("filter_by_visibility", PyBool(FALSE))>>},
        e \in {<<>>, <<Item("bogus", PyStr("x"))>>}}

\* the Python value as json.dumps writes it
PyToJson(v) ==
    IF v.t = "str" \/ v.t = "Path" THEN [j |-> "string", s |-> v.s]
    ELSE IF v.t = "bool" THEN [j |-> IF v.b THEN "true" ELSE "false", s |-> ""]
    ELSE [j |-> "null", s |-> ""]

JsonObject(data) ==
    [kind |-> "object",
     members |-> [i \in 1..Len(data) |-> [k |-> data[i].k, v |-> PyToJson(data[i].v)]]]

Malformed == [kind |-> "malformed", members |-> <<>>]

JsonTexts == {Malformed} \cup {JsonObject(data) : data \in ConfigData}

ConfigFiles == {[exists |-> FALSE, text |-> Malformed]}
               \cup {[exists |-> TRUE, text |-> t] : t \in JsonTexts}

Outcomes == {"ok", "TypeError", "RuntimeError"}

Hosts == [full : Outcomes, middleware : Outcomes, plain : Outcomes]

\* the caller's filter_fn: none, or `tag in meta.tags`
CallerFilters == {None, Some("math"), Some("time")}

-----------------------------------------------------------------------------
(* Assembly: one configuration is constructed, then one agent is built      *)

ConstructCall(way, input, r) ==
    /\ last.op = "init"
    /\ config' = r.config
    /\ last' = [op |-> "SkillSystemConfig", way |-> way, input |-> input,
                raised |-> r.raised, config |-> r.config]
    /\ UNCHANGED <<skills, tools, modules, agent_input, registered, nops, agent, state, apps>>

Construct == \E data \in ConfigData : ConstructCall("init", data, SkillSystemConfig(data))

FromDict == \E data \in ConfigData : ConstructCall("from_dict", data, from_dict(data))

FromJson == \E json_str \in JsonTexts : ConstructCall("from_json", json_str, from_json(json_str))

Load == \E path \in ConfigFiles : ConstructCall("load", path, load(path))

CreateCall(cfg, filter_fn, host, r) ==
    /\ agent' = r.agent
    /\ IF r.raised = "" THEN SetReg(r.reg) ELSE UNCHANGED <<skills, tools, modules>>
    /\ registered' = IF r.raised = "" THEN Range(DictKeys(r.reg.skills)) ELSE registered
    /\ agent_input' = IF r.raised = ""
                      THEN [tools |-> r.agent[1].agent.tools, messages |-> <<>>]
                      ELSE agent_input
    /\ last' = [op |-> "create_skill_agent", config |-> cfg, filter_fn |-> filter_fn,
                host |-> host, raised |-> r.raised, attempts |-> r.attempts,
                all_tools |-> r.all_tools, available_skills |-> r.available_skills,
                state_schema |-> r.state_schema, reg |-> r.reg]
    /\ UNCHANGED <<nops, config, state, apps>>

CreateSkillAgent ==
    \E filter_fn \in CallerFilters, host \in Hosts :
        /\ config # None
        /\ agent = None
        /\ last.op = "SkillSystemConfig"
        /\ CreateCall(config[1], filter_fn, host, create_skill_agent(config[1], filter_fn, host))

\* the state_mode attribute is assigned after construction, then the agent
\* is built
CreateSkillAgentReassigned ==
    \E state_mode \in {PyStr("ring"), PyStr("fifo")}, host \in Hosts :
        /\ config # None
        /\ agent = None
        /\ last.op = "SkillSystemConfig"
        /\ config[1].skills_dir.s = "./one"
        /\ LET cfg == [config[1] EXCEPT !.state_mode = state_mode]
           IN  CreateCall(cfg, None, host, create_skill_agent(cfg, None, host))

NextAssemble ==
    \/ Construct
    \/ FromDict
    \/ FromJson
    \/ Load
    \/ CreateSkillAgent
    \/ CreateSkillAgentReassigned

SpecAssemble == Init /\ [][NextAssemble]_vars

-----------------------------------------------------------------------------
(* Turns: an agent built with the default directory, then middleware calls  *)
(* interleaved with changes to the registry the agent holds                 *)

AllOk == [full |-> "ok", middleware |-> "ok", plain |-> "ok"]

TurnConfigs ==
    {[DefaultConfig EXCEPT !.filter_by_visibility = PyBool(b), !.verbose = PyBool(v)] :
         b \in BOOLEAN, v \in BOOLEAN}

\* what the tools entry of a turn's input holds when the middleware is called: a list
\* (the one in the record), the value None, or nothing because the key is missing; in
\* the last two cases the record's tools field is the empty list
HeldKinds == {"list", "None", "missing"}

\* SkillMiddleware.__call__ with its log line: current_tools is agent_input.get("tools", []),
\* and a verbose middleware takes len(current_tools) before the tools entry is assigned
call(sk, tl, self, held, input) ==
    IF Truthy(self.verbose) /\ held = "None"
    THEN [raised |-> "TypeError", ret |-> input]
    ELSE [raised |-> "", ret |-> middleware_call(sk, tl, self.filter_fn, input)]

InitTurns ==
    /\ \E cfg \in TurnConfigs, filter_fn \in {None, Some("math")} :
          LET r == create_skill_agent(cfg, filter_fn, AllOk)
          IN  /\ skills = r.reg.skills
              /\ tools = r.reg.tools
              /\ modules = r.reg.modules
              /\ registered = Range(DictKeys(r.reg.skills))
              /\ agent = r.agent
              /\ config = Some(cfg)
              /\ agent_input = [tools |-> r.agent[1].agent.tools, messages |-> <<>>]
    /\ last = [op |-> "init"]
    /\ nops = 0
    /\ state = None
    /\ InitApps

\* the agent's SkillMiddleware is called on the turn's input
Turn ==
    /\ agent # None
    /\ agent[1].agent.middleware # None
    /\ Len(agent[1].agent.middleware[1]) > 0
    /\ \E held \in HeldKinds :
          LET skill_middleware == agent[1].agent.middleware[1][1]
              input == [agent_input EXCEPT !.messages = <<"hi">>,
                                           !.tools = IF held = "list" THEN @ ELSE <<>>]
              r == call(skills, tools, skill_middleware, held, input)
          IN  /\ agent_input' = r.ret
              /\ last' = [op |-> "turn", input |-> input, after |-> last.op,
                          after_returned |-> (last.op = "turn" /\ last.raised = ""),
                          filter_fn |-> skill_middleware.filter_fn, held |-> held,
                          verbose |-> skill_middleware.verbose, raised |-> r.raised,
                          before |-> [skills |-> skills, tools |-> tools, modules |-> modules,
                                      state |-> state]]
    /\ UNCHANGED <<skills, tools, modules, registered, nops, config, agent, state, apps>>

\* the caller assigns a field of the record get_metadata returned
SetField(name, record) ==
    /\ nops < MaxOps
    /\ DictHas(skills, name)
    /\ DictAt(skills, name) # record
    /\ skills' = DictSet(skills, name, record)
    /\ nops' = nops + 1
    /\ UNCHANGED <<tools, modules, registered, agent_input, config, agent, state, apps>>

SetVisibility ==
    \E name \in registered, visibility \in {"public", "private"} :
        /\ SetField(name, [DictAt(skills, name) EXCEPT !.visibility = visibility])
        /\ last' = [op |-> "set_visibility", name |-> name, visibility |-> visibility]

SetTags ==
    \E name \in registered, tags \in {<<>>, <<"math">>} :
        /\ SetField(name, [DictAt(skills, name) EXCEPT !.tags = tags])
        /\ last' = [op |-> "set_tags", name |-> name, tags |-> tags]

RegisterNew ==
    \E metadata \in {None, Some(MetaMath)} : RegisterCall(<<"c", "a">>, ToolA, metadata)

NextTurns ==
    \/ Turn
    \/ SetVisibility
    \/ SetTags
    \/ RegisterNew

SpecTurns == InitTurns /\ [][NextTurns]_vars

-----------------------------------------------------------------------------
(* The state classes of src/core/state.py.  A message or a step is the      *)
(* number of its arrival, so that no two are equal and order is visible.    *)

\* seq[start:], Python's slice with a start that may be negative
SliceFrom(seq, start) ==
    LET lo == IF start < 0
              THEN (IF Len(seq) + start < 0 THEN 0 ELSE Len(seq) + start)
              ELSE (IF start > Len(seq) THEN Len(seq) ELSE start)
    IN  SubSeq(seq, lo + 1, Len(seq))

\* SkillStateFIFO(max_size, messages=messages)
SkillStateFIFO(max_size, messages) ==
    [cls |-> "SkillStateFIFO", max_size |-> max_size, messages |-> messages,
     intermediate_steps |-> <<>>, skill_history |-> <<>>]

\* SkillStateFIFO.append
append(self, new_messages) ==
    LET extended == self.messages \o new_messages
    IN  IF Len(extended) > self.max_size
        THEN [self EXCEPT !.messages = SliceFrom(extended, 0 - self.max_size)]
        ELSE [self EXCEPT !.messages = extended]

\* SkillStateAccumulative(messages=..., intermediate_steps=...)
SkillStateAccumulative(messages, intermediate_steps) ==
    [cls |-> "SkillStateAccumulative", max_size |-> 0, messages |-> messages,
     intermediate_steps |-> intermediate_steps, skill_history |-> <<>>]

\* mutant of accumulate: the messages are replaced by the new ones
accumulate_replace(self, new_messages, new_steps) ==
    [self EXCEPT !.messages = new_messages,
                 !.intermediate_steps =
                     IF ~IsNone(new_steps) /\ Len(new_steps[1]) > 0
                     THEN @ \o new_steps[1] ELSE @]

\* SkillStateAccumulative.accumulate; new_steps is None or Some(list)
accumulate(self, new_messages, new_steps) ==
    [self EXCEPT !.messages = @ \o new_messages,
                 !.intermediate_steps =
                     IF ~IsNone(new_steps) /\ Len(new_steps[1]) > 0
                     THEN @ \o new_steps[1] ELSE @]

\* the largest max_size a state is built with
MaxCap == 3

\* the longest list one call passes
MaxBatch == 2

\* append and accumulate calls on one state
MaxAppends == 3

\* the k items that arrive after n have arrived
Arrivals(n, k) == [i \in 1..k |-> n + i]

NewFIFO ==
    \E max_size \in 0..MaxCap, k \in {0, 2} :
        /\ last.op = "init"
        /\ state' = Some(SkillStateFIFO(max_size, Arrivals(0, k)))
        /\ last' = [op |-> "SkillStateFIFO", start |-> Arrivals(0, k), start_steps |-> <<>>,
                    all |-> <<>>, steps |-> <<>>]
        /\ UNCHANGED <<skills, tools, modules, agent_input, registered, nops, config, agent, apps>>

NewAccumulative ==
    \E k \in {0, 1}, s \in {0, 1} :
        /\ last.op = "init"
        /\ state' = Some(SkillStateAccumulative(Arrivals(0, k), Arrivals(0, s)))
        /\ last' = [op |-> "SkillStateAccumulative", start |-> Arrivals(0, k),
                    start_steps |-> Arrivals(0, s), all |-> <<>>, steps |-> <<>>]
        /\ UNCHANGED <<skills, tools, modules, agent_input, registered, nops, config, agent, apps>>

FifoAppend ==
    \E k \in 0..MaxBatch :
        LET new_messages == Arrivals(Len(last.start) + Len(last.all), k)
        IN  /\ state # None
            /\ state[1].cls = "SkillStateFIFO"
            /\ nops < MaxAppends
            /\ state' = Some(append(state[1], new_messages))
            /\ last' = [last EXCEPT !.op = "append", !.all = @ \o new_messages]
            /\ nops' = nops + 1
            /\ UNCHANGED <<skills, tools, modules, agent_input, registered, config, agent, apps>>

Accumulate ==
    \E k \in 0..MaxBatch, s \in {0, 1}, given \in BOOLEAN :
        LET new_messages == Arrivals(Len(last.start) + Len(last.all), k)
            passed == Arrivals(Len(last.start_steps) + Len(last.steps), s)
            new_steps == IF given THEN Some(passed) ELSE None
        IN  /\ state # None
            /\ state[1].cls = "SkillStateAccumulative"
            /\ nops < MaxAppends
            /\ ~given => s = 0
            /\ state' = Some(accumulate(state[1], new_messages, new_steps))
            /\ last' = [last EXCEPT !.op = "accumulate", !.all = @ \o new_messages,
                                    !.steps = @ \o passed]
            /\ nops' = nops + 1
            /\ UNCHANGED <<skills, tools, modules, agent_input, registered, config, agent, apps>>

NextState ==
    \/ NewFIFO
    \/ NewAccumulative
    \/ FifoAppend
    \/ Accumulate

SpecState == Init /\ [][NextState]_vars


-----------------------------------------------------------------------------
(* search.py and long-term-memory.py: internet_search and its module-level cache *)

\* the literal of `if len(_search_cache) < 50`
CacheLimit == 50

BoolStr(b) == IF b THEN "True" ELSE "False"

\* f"{query}:{max_results}:{topic}:{include_raw_content}"; the query is a sequence of
\* characters, the topic and the formatted flag are single tokens without a colon
cache_key(query, max_results, topic, include_raw_content) ==
    query \o <<":">> \o DecStr(max_results) \o <<":">> \o <<topic>> \o <<":">>
          \o <<BoolStr(include_raw_content)>>

\* tavily_client.search: either raises, or answers with a result object that no earlier
\* call returned (the number of the answer stands for the object)
ApiOutcomes == {"ok", "ConnectionError"}

\* the same function with an oldest-first eviction in place of the size test
internet_search_evicting(sc, query, max_results, topic, include_raw_content, api) ==
    LET key == cache_key(query, max_results, topic, include_raw_content)
        result == sc.calls + 1
        room == IF Len(sc.cache) < CacheLimit THEN sc.cache
                ELSE SubSeq(sc.cache, 2, Len(sc.cache))
    IN  IF DictHas(sc.cache, key)
        THEN [cache |-> sc.cache, calls |-> sc.calls, raised |-> "", hit |-> TRUE,
              ret |-> DictGet(sc.cache, key)]
        ELSE IF api # "ok"
        THEN [cache |-> sc.cache, calls |-> sc.calls, raised |-> api, hit |-> FALSE,
              ret |-> None]
        ELSE [cache |-> DictSet(room, key, result), calls |-> result, raised |-> "",
              hit |-> FALSE, ret |-> Some(result)]

\* internet_search: a hit returns the cached object without calling the API; a miss calls
\* the API, whose exception propagates before anything is stored, and stores the answer
\* only while the cache holds fewer than CacheLimit entries
internet_search(sc, query, max_results, topic, include_raw_content, api) ==
    LET key == cache_key(query, max_results, topic, include_raw_content)
        result == sc.calls + 1
    IN  IF DictHas(sc.cache, key)
        THEN [cache |-> sc.cache, calls |-> sc.calls, raised |-> "", hit |-> TRUE,
              ret |-> DictGet(sc.cache, key)]
        ELSE IF api # "ok"
        THEN [cache |-> sc.cache, calls |-> sc.calls, raised |-> api, hit |-> FALSE,
              ret |-> None]
        ELSE [cache |-> IF Len(sc.cache) < CacheLimit
                        THEN DictSet(sc.cache, key, result) ELSE sc.cache,
              calls |-> result, raised |-> "", hit |-> FALSE, ret |-> Some(result)]

\* the number of API answers explored; it exceeds CacheLimit so that the cache fills up
\* and searches go on afterwards
MaxSearches == 53

\* the searches tried in a state: the first query again, a query never searched before,
\* and the first query with every other argument changed
SearchInputs ==
    LET fresh == search_cache.calls + 1
    IN  {[query |-> DecStr(q), max_results |-> 3, topic |-> "general", raw |-> FALSE] :
             q \in {1, fresh}}
        \cup {[query |-> DecStr(1), max_results |-> 10, topic |-> "news", raw |-> TRUE]}

InternetSearch ==
    \E a \in SearchInputs, api \in ApiOutcomes :
        LET r == internet_search(search_cache, a.query, a.max_results, a.topic, a.raw, api)
        IN  /\ search_cache.calls < MaxSearches
            /\ search_cache' = [cache |-> r.cache, calls |-> r.calls]
            /\ last' = [op |-> "internet_search",
                        key |-> cache_key(a.query, a.max_results, a.topic, a.raw),
                        api |-> api, hit |-> r.hit, raised |-> r.raised, ret |-> r.ret,
                        before |-> search_cache]
            /\ UNCHANGED <<system, cli, lru>>

NextSearch == InternetSearch

SpecSearch == Init /\ [][NextSearch]_vars


-----------------------------------------------------------------------------
(* skills/skill_calculator.py: the calculator tool *)

\* set("0123456789+-*/.() ")
allowed_chars ==
    {"0", "1", "2", "3", "4", "5", "6", "7", "8", "9", "+", "-", "*", "/", ".", "(", ")", " "}

\* what eval(expression) followed by f"Result: {result}" can do on a string of allowed
\* characters: eval is the interpreter's, so its outcome is left open between a value
\* (given by its str()) and the exceptions arithmetic text can raise; formatting an
\* integer longer than the interpreter's digit limit raises ValueError
EvalValues == {"4", "2.5", "()"}
EvalErrors ==
    {"ZeroDivisionError", "SyntaxError", "TypeError", "OverflowError", "MemoryError",
     "RecursionError", "ValueError"}
EvalOutcomes ==
    {[raised |-> "", str |-> v] : v \in EvalValues}
    \cup {[raised |-> e, str |-> ""] : e \in EvalErrors}

\* the same function without its last handler
calculator_no_catch_all(expression, outcome) ==
    IF \E i \in 1..Len(expression) : expression[i] \notin allowed_chars
    THEN [raised |-> "", ret |-> <<"Error:", " Only basic arithmetic operations (+, -, *, /) are allowed">>]
    ELSE IF outcome.raised = ""
    THEN [raised |-> "", ret |-> <<"Result:", " ", outcome.str>>]
    ELSE IF outcome.raised = "ZeroDivisionError"
    THEN [raised |-> "", ret |-> <<"Error:", " Division by zero">>]
    ELSE [raised |-> outcome.raised, ret |-> << >>]

\* calculator: the whole body is inside the try; the character test returns before eval
\* is called; ZeroDivisionError has its own handler and every other Exception the last
\* one, which returns f"Error: {str(e)}"
calculator(expression, outcome) ==
    IF \E i \in 1..Len(expression) : expression[i] \notin allowed_chars
    THEN [raised |-> "", ret |-> <<"Error:", " Only basic arithmetic operations (+, -, *, /) are allowed">>]
    ELSE IF outcome.raised = ""
    THEN [raised |-> "", ret |-> <<"Result:", " ", outcome.str>>]
    ELSE IF outcome.raised = "ZeroDivisionError"
    THEN [raised |-> "", ret |-> <<"Error:", " Division by zero">>]
    ELSE [raised |-> "", ret |-> <<"Error:", " ", outcome.raised>>]

\* the longest expression explored
MaxExprLen == 2

\* characters of expressions: digits, operators, a parenthesis, a blank, and two
\* characters outside the allowed set
ExprChars == {"1", "0", "/", "(", " ", "a", "_"}

Expressions == SeqsUpTo(ExprChars, MaxExprLen)

Calculator ==
    \E expression \in Expressions, outcome \in EvalOutcomes :
        LET r == calculator(expression, outcome)
        IN  /\ last.op = "init"
            /\ last' = [op |-> "calculator", expression |-> expression, outcome |-> outcome,
                        raised |-> r.raised, ret |-> r.ret]
            /\ UNCHANGED <<system, apps>>

NextCalc == Calculator

SpecCalc == Init /\ [][NextCalc]_vars


-----------------------------------------------------------------------------
(* chat_cli.py: the interactive loop *)

IsSpace(c) == c \in {" ", "\t", "\n"}

RECURSIVE LStrip(_)
LStrip(s) == IF s # << >> /\ IsSpace(s[1]) THEN LStrip(SubSeq(s, 2, Len(s))) ELSE s

RECURSIVE RStrip(_)
RStrip(s) == IF s # << >> /\ IsSpace(s[Len(s)]) THEN RStrip(SubSeq(s, 1, Len(s) - 1)) ELSE s

\* s.strip()
Strip(s) == RStrip(LStrip(s))

\* s[n:]
SliceFromIndex(s, n) == SubSeq(s, n + 1, Len(s))

\* the command words
CmdQuit == <<"q", "u", "i", "t">>
CmdExit == <<"e", "x", "i", "t">>
CmdHelp == <<"h", "e", "l", "p">>
CmdNew == <<"n", "e", "w">>
CmdClear == <<"c", "l", "e", "a", "r">>
CmdMemories == <<"m", "e", "m", "o", "r", "i", "e", "s">>
CmdMemoryPrefix == <<"m", "e", "m", "o", "r", "y", " ">>

\* what a call the loop makes can do: return, raise an Exception, or be interrupted
CallOutcomes == {"ok", "Exception", "KeyboardInterrupt"}

\* what input("You: ") can do: return a line, raise EOFError, or be interrupted
ReadOutcomes == {"ok", "EOFError", "KeyboardInterrupt"}

\* list_memories and view_memory catch every Exception themselves and print it; an
\* interrupt is no Exception and leaves them
memory_lookup(c, shown, outcome) ==
    IF outcome = "KeyboardInterrupt"
    THEN [cli |-> [c EXCEPT !.running = FALSE], shown |-> "goodbye", raised |-> outcome]
    ELSE [cli |-> c, shown |-> IF outcome = "ok" THEN shown ELSE "error", raised |-> ""]

\* the same call with the user's message stored before the agent is invoked
invoke_agent_store_first(c, user_input, outcome) ==
    LET sent == [c EXCEPT !.forwarded = Append(@, user_input),
                          !.messages = Append(@, [role |-> "user", content |-> user_input])]
    IN  IF outcome = "KeyboardInterrupt"
        THEN [cli |-> [sent EXCEPT !.running = FALSE], shown |-> "goodbye", raised |-> outcome]
        ELSE IF outcome # "ok"
        THEN [cli |-> sent, shown |-> "error", raised |-> outcome]
        ELSE [cli |-> [sent EXCEPT !.messages =
                          Append(@, [role |-> "assistant", content |-> <<"r">>])],
              shown |-> "response", raised |-> ""]

\* agent.invoke, the extraction of the response and the two appends to the history; the
\* ghost field forwarded logs every input handed to agent.invoke
invoke_agent(c, user_input, outcome) ==
    LET sent == [c EXCEPT !.forwarded = Append(@, user_input)]
    IN  IF outcome = "KeyboardInterrupt"
        THEN [cli |-> [sent EXCEPT !.running = FALSE], shown |-> "goodbye", raised |-> outcome]
        ELSE IF outcome # "ok"
        THEN [cli |-> sent, shown |-> "error", raised |-> outcome]
        ELSE [cli |-> [sent EXCEPT !.messages =
                          @ \o <<[role |-> "user", content |-> user_input],
                                 [role |-> "assistant", content |-> <<"r">>]>>],
              shown |-> "response", raised |-> ""]

\* one iteration of the while loop: the line is read and stripped, matched against the
\* commands in the order of the if/elif chain, and otherwise sent to the agent
chat_step(c, raw, read, outcome) ==
    LET user_input == Strip(raw)
        low == StrLower(user_input)
        key == Strip(SliceFromIndex(user_input, 7))
        same(shown) == [cli |-> c, shown |-> shown, raised |-> ""]
    IN  IF read = "KeyboardInterrupt"
        THEN [cli |-> [c EXCEPT !.running = FALSE], shown |-> "goodbye", raised |-> read]
        ELSE IF read # "ok" THEN [cli |-> c, shown |-> "error", raised |-> read]
        ELSE IF user_input = << >> THEN same("")
        ELSE IF low \in {CmdQuit, CmdExit}
        THEN [cli |-> [c EXCEPT !.running = FALSE], shown |-> "goodbye", raised |-> ""]
        ELSE IF low = CmdHelp THEN same("help")
        ELSE IF low = CmdNew
        THEN [cli |-> [c EXCEPT !.thread_id = @ + 1, !.messages = << >>],
              shown |-> "new", raised |-> ""]
        ELSE IF low = CmdClear
        THEN [cli |-> [c EXCEPT !.messages = << >>], shown |-> "cleared", raised |-> ""]
        ELSE IF low = CmdMemories THEN memory_lookup(c, "memories", outcome)
        ELSE IF StartsWith(low, CmdMemoryPrefix)
        THEN IF key # << >> THEN memory_lookup(c, "memory", outcome) ELSE same("usage")
        ELSE invoke_agent(c, user_input, outcome)

\* the number of lines read in one run of the loop
MaxInputs == 3

\* the lines typed: blank lines, each command in some letter case and with surrounding
\* blanks, `memory` with and without a key, free text, and text that starts like a command
ChatInputs ==
    {<<>>,
     <<" ", " ">>,
     <<"q", "u", "i", "t">>,
     <<"E", "X", "I", "T">>,
     <<" ", "H", "e", "l", "p", " ">>,
     <<"n", "e", "w">>,
     <<"C", "l", "e", "a", "r">>,
     <<"m", "e", "m", "o", "r", "i", "e", "s">>,
     <<"m", "e", "m", "o", "r", "y", " ", "k">>,
     <<"M", "e", "m", "o", "r", "y", " ", " ", "k", " ">>,
     <<"m", "e", "m", "o", "r", "y">>,
     <<"m", "e", "m", "o", "r", "y", " ">>,
     <<"h", "i">>,
     <<" ", "h", "i", " ">>,
     <<"m", "e", "m", "o", "r", "y", "k">>,
     <<"q", "u", "i", "t", " ", "i", "t">>}

\* chat_loop up to its first iteration: a fresh thread id and an empty history
StartChat ==
    /\ last.op = "init"
    /\ cli' = [thread_id |-> 1, messages |-> << >>, forwarded |-> << >>, running |-> TRUE,
               turns |-> 0]
    /\ last' = [op |-> "chat_loop"]
    /\ UNCHANGED <<system, search_cache, lru>>

ChatStep ==
    \E raw \in ChatInputs, read \in ReadOutcomes, outcome \in CallOutcomes :
        LET r == chat_step(cli, raw, read, outcome)
        IN  /\ cli.running
            /\ cli.turns < MaxInputs
            /\ cli' = [r.cli EXCEPT !.turns = @ + 1]
            /\ last' = [op |-> "chat", raw |-> raw, read |-> read, outcome |-> outcome,
                        user_input |-> Strip(raw), shown |-> r.shown, raised |-> r.raised,
                        before |-> cli]
            /\ UNCHANGED <<system, search_cache, lru>>

NextCli == StartChat \/ ChatStep

SpecCli == Init /\ [][NextCli]_vars


-----------------------------------------------------------------------------
(* optimization_examples.py: OptimizedSearchCache.  The object is            *)
(* [max_size, cache, access_order]: _cache is a dict, _access_order a        *)
(* deque(maxlen=max_size).                                                   *)

\* deque.append under maxlen: a full deque drops its leftmost element
DequeAppend(d, maxlen, x) ==
    IF maxlen = 0 THEN d
    ELSE IF Len(d) >= maxlen THEN Append(SubSeq(d, 2, Len(d)), x)
    ELSE Append(d, x)

\* deque.remove(x): the first occurrence is removed
DequeRemove(d, x) ==
    LET i == CHOOSE j \in 1..Len(d) : d[j] = x /\ \A l \in 1..(j - 1) : d[l] # x
    IN  SubSeq(d, 1, i - 1) \o SubSeq(d, i + 1, Len(d))

\* del d[key]
DictDel(d, key) == SelectSeq(d, LAMBDA item : item.k # key)

\* OptimizedSearchCache(max_size)
OptimizedSearchCache(max_size) ==
    [max_size |-> max_size, cache |-> << >>, access_order |-> << >>]

\* get(key): [self, ret, raised]
lru_get(self, key) ==
    IF DictHas(self.cache, key)
    THEN LET removed == IF \E j \in 1..Len(self.access_order) : self.access_order[j] = key
                        THEN DequeRemove(self.access_order, key)
                        ELSE self.access_order
         IN  [self |-> [self EXCEPT !.access_order = DequeAppend(removed, self.max_size, key)],
              ret |-> DictGet(self.cache, key), raised |-> ""]
    ELSE [self |-> self, ret |-> None, raised |-> ""]

\* set(key, value): [self, raised].  popleft on an empty deque raises IndexError;
\* del of a key the dict does not hold raises KeyError, after popleft has been done
lru_set(self, key, value) ==
    IF Len(self.cache) >= self.max_size
    THEN IF Len(self.access_order) = 0 THEN [self |-> self, raised |-> "IndexError"]
         ELSE LET oldest == self.access_order[1]
                  popped == [self EXCEPT !.access_order = SubSeq(@, 2, Len(@))]
              IN  IF ~DictHas(self.cache, oldest)
                  THEN [self |-> popped, raised |-> "KeyError"]
                  ELSE [self |-> [popped EXCEPT
                                     !.cache = DictSet(DictDel(@, oldest), key, value),
                                     !.access_order = DequeAppend(@, self.max_size, key)],
                        raised |-> ""]
    ELSE [self |-> [self EXCEPT !.cache = DictSet(@, key, value),
                                !.access_order = DequeAppend(@, self.max_size, key)],
          raised |-> ""]

\* the largest max_size explored
MaxLruSize == 3

LruKeys == {"a", "b", "c", "d"}

LruValues == {1, 2}

NewLru ==
    \E max_size \in 1..MaxLruSize :
        /\ lru = None
        /\ lru' = Some(OptimizedSearchCache(max_size))
        /\ last' = [op |-> "OptimizedSearchCache", max_size |-> max_size]
        /\ UNCHANGED <<system, search_cache, cli>>

LruGet ==
    \E key \in LruKeys :
        LET r == lru_get(lru[1], key)
        IN  /\ lru # None
            /\ lru' = Some(r.self)
            /\ last' = [op |-> "get", key |-> key, ret |-> r.ret, raised |-> r.raised,
                        evicted |-> None]
            /\ UNCHANGED <<system, search_cache, cli>>

LruSet ==
    \E key \in LruKeys, value \in LruValues :
        LET r == lru_set(lru[1], key, value)
            gone == IF Len(lru[1].cache) >= lru[1].max_size /\ Len(lru[1].access_order) > 0
                    THEN Some(lru[1].access_order[1]) ELSE None
        IN  /\ lru # None
            /\ lru' = Some(r.self)
            /\ last' = [op |-> "set", key |-> key, ret |-> None, raised |-> r.raised,
                        evicted |-> gone]
            /\ UNCHANGED <<system, search_cache, cli>>

NextCache == NewLru \/ LruGet \/ LruSet

SpecCache == Init /\ [][NextCache]_vars

-----------------------------------------------------------------------------
(* Registry invariants *)

\* no key occurs twice in a dict
UniqueKeys(d) == \A i, j \in 1..Len(d) : d[i].k = d[j].k => i = j

\* C1: in every state that register and discover_and_load calls reach, the
\* names with a metadata record are the names with a tool, and each name has
\* exactly one metadata record and exactly one tool.
C1_NamesAgree ==
    /\ Range(DictKeys(skills)) = Range(DictKeys(tools))
    /\ UniqueKeys(skills)
    /\ UniqueKeys(tools)

\* register and discover_and_load have both acted, on overlapping names
C1_Witness ==
    /\ last.op = "discover_and_load"
    /\ last.ret >= 2
    /\ Len(last.pre.skills) > 0
    /\ Len(skills) >= 3

\* C2: register on a name that is already registered does not raise; then
\* get_tool and get_metadata return the tool and the metadata of this call,
\* len is unchanged, and an omitted metadata is stored as a record with that
\* name and the tool's description (empty when the tool has none).
C2_LastWriteWins ==
    (last.op = "register" /\ contains(last.pre.skills, last.name)) =>
        /\ ~last.raised
        /\ get_tool(tools, last.name) = Some(last.tool)
        /\ ~IsNone(get_metadata(skills, last.name))
        /\ IF IsNone(last.metadata)
           THEN LET m == get_metadata(skills, last.name)[1]
                IN  /\ m.name = last.name
                    /\ m.description = IF last.tool.description.kind = "str"
                                       THEN last.tool.description.s ELSE <<>>
           ELSE get_metadata(skills, last.name) = last.metadata
        /\ len(skills) = len(last.pre.skills)

\* a registered name is registered again, with another tool and no metadata
C2_Witness ==
    /\ last.op = "register"
    /\ contains(last.pre.skills, last.name)
    /\ get_tool(last.pre.tools, last.name) # Some(last.tool)
    /\ IsNone(last.metadata)
    /\ last.tool.description.kind = "none"

\* C3: a registered name stays registered over every later call; len never
\* decreases and is the number of distinct names registered so far, and
\* `name in registry` holds exactly for those names.
C3_AppendMostly ==
    [][/\ \A name \in Range(DictKeys(skills)) \cup registered : contains(skills', name)
       /\ len(skills') >= len(skills)
       /\ len(skills') = Cardinality(registered')
       /\ \A name \in registered' \cup LookupNames \cup RegisterNames :
             contains(skills', name) <=> name \in registered']_vars

\* names from register and from a scan are all there after a later
\* middleware call
C3_Witness ==
    /\ last.op = "middleware"
    /\ Cardinality(registered) >= 2
    /\ len(skills) = Cardinality(registered)
    /\ nops = MaxOps

-----------------------------------------------------------------------------
(* Discovery: what one scan registers and returns *)

\* the register calls the last scan made for the file at position i
EntriesOf(i) == SelectSeq(last.log, LAMBDA e : e.file = i)

ToolsOf(entries) == [j \in 1..Len(entries) |-> entries[j].tool]

\* the file raises while it is loaded: on import, in its factory, when its
\* tools meet a metadata export that is no SkillMetadata, or when the
\* description of one of its tools raises
Raises(f) ==
    \/ f.load = "raise"
    \/ /\ f.load = "ok"
       /\ \/ FindTools(f).raised
          \/ Len(FindTools(f).ts) > 0 /\ FindMetadata(f).kind = "malformed"
          \/ \E k \in 1..Len(FindTools(f).ts) :
                DescriptionRaises(FindTools(f).ts[k], FindMetadata(f))

\* the tools of a file that loads without raising
GoodTools(f) == IF f.load = "ok" /\ ~Raises(f) THEN FindTools(f).ts ELSE <<>>

RECURSIVE SumGoodTools(_, _)
SumGoodTools(files, i) ==
    IF i > Len(files) THEN 0 ELSE Len(GoodTools(files[i])) + SumGoodTools(files, i + 1)

\* the tools of ts that come before the first one whose description raises
BeforeRaise(ts, metadata) ==
    LET bad == {k \in 1..Len(ts) : DescriptionRaises(ts[k], metadata)}
    IN  IF bad = {} THEN ts
        ELSE SubSeq(ts, 1, (CHOOSE k \in bad : \A l \in bad : k <= l) - 1)

\* the file raises before a tool of it is registered: on import, in its factory, or
\* on a metadata export that is no SkillMetadata
RaisesAtOnce(f) ==
    \/ f.load = "raise"
    \/ /\ f.load = "ok"
       /\ \/ FindTools(f).raised
          \/ Len(FindTools(f).ts) > 0 /\ FindMetadata(f).kind = "malformed"

\* the tools of a file that are registered: all of them, or those before the raise
LoadedTools(f) ==
    IF f.load = "ok" /\ ~RaisesAtOnce(f) THEN BeforeRaise(FindTools(f).ts, FindMetadata(f))
    ELSE <<>>

RECURSIVE SumLoadedTools(_, _)
SumLoadedTools(files, i) ==
    IF i > Len(files) THEN 0 ELSE Len(LoadedTools(files[i])) + SumLoadedTools(files, i + 1)

\* the file has none of the five tool exports
NoRecognisedExport(f) ==
    /\ f.tools.kind # "list"
    /\ IsNone(f.tool)
    /\ IsNone(f.skill)
    /\ f.get_tool.kind = "absent"
    /\ f.create_tool.kind = "absent"

\* C4 as stated: whichever matching files raise while loading,
\* discover_and_load returns normally, every file that does not raise is
\* processed (its tools are registered, before or after a failing file), and
\* the count is the number of tools of the files that did not raise.
C4_BadFileIsolated ==
    last.op = "discover_and_load" =>
        /\ ~last.raised
        /\ last.errors = {i \in 1..Len(last.scanned) : Raises(last.scanned[i])}
        /\ \A i \in 1..Len(last.scanned) :
              /\ ToolsOf(EntriesOf(i)) = GoodTools(last.scanned[i])
              /\ \A j \in 1..Len(EntriesOf(i)) : contains(skills, EntriesOf(i)[j].name)
        /\ last.ret = SumGoodTools(last.scanned, 1)

\* C4, amended: whichever matching files raise while loading,
\* discover_and_load returns normally and every file that does not raise is
\* processed, before or after a failing file; the count is the number of
\* tools of the files that did not raise plus, for a file that raised at one
\* of its tools, the tools of it registered before that one.
C4_BadFileContained ==
    last.op = "discover_and_load" =>
        /\ ~last.raised
        /\ last.errors = {i \in 1..Len(last.scanned) : Raises(last.scanned[i])}
        /\ \A i \in 1..Len(last.scanned) :
              /\ ToolsOf(EntriesOf(i)) = LoadedTools(last.scanned[i])
              /\ ~Raises(last.scanned[i]) => ToolsOf(EntriesOf(i)) = GoodTools(last.scanned[i])
              /\ \A j \in 1..Len(EntriesOf(i)) : contains(skills, EntriesOf(i)[j].name)
        /\ last.ret = SumLoadedTools(last.scanned, 1)

\* a file that raises at its second tool is scanned first and a well-formed
\* one after it: the count is the first file's first tool and the second file's
C4_Witness ==
    /\ last.op = "discover_and_load"
    /\ Len(last.scanned) = 2
    /\ Raises(last.scanned[1])
    /\ ~Raises(last.scanned[2])
    /\ last.errors = {1}
    /\ Len(EntriesOf(1)) = 1
    /\ Len(EntriesOf(2)) >= 1
    /\ last.ret = 1 + Len(EntriesOf(2))

\* C5 as stated: discover_and_load returns the number of register calls of
\* the scan; a file with no recognised export and a skipped file add nothing;
\* a directory that does not exist gives 0 and leaves the registry as it was.
C5_CountsRegisterCalls ==
    last.op = "discover_and_load" =>
        /\ last.ret = Len(last.log)
        /\ \A j \in 1..Len(last.log) :
              get_tool(tools, last.log[j].name) # None
        /\ \A i \in 1..Len(last.scanned) :
              (\/ NoRecognisedExport(last.scanned[i])
               \/ last.scanned[i].load = "nospec"
               \/ i \in last.errors) => EntriesOf(i) = <<>>
        /\ ~last.skills_dir.exists => (last.ret = 0 /\ Reg = last.pre)

\* C5, amended: discover_and_load returns the number of register calls of
\* the scan; a file with no recognised export, a file without an import spec
\* and a file that raises before its first tool is registered add nothing; a
\* file that raises at a later tool adds the tools registered before it; a
\* directory that does not exist gives 0 and leaves the registry as it was.
C5_CountsRegistered ==
    last.op = "discover_and_load" =>
        /\ last.ret = Len(last.log)
        /\ \A j \in 1..Len(last.log) :
              get_tool(tools, last.log[j].name) # None
        /\ \A i \in 1..Len(last.scanned) :
              /\ (\/ NoRecognisedExport(last.scanned[i])
                  \/ last.scanned[i].load = "nospec"
                  \/ RaisesAtOnce(last.scanned[i])) => EntriesOf(i) = <<>>
              /\ i \in last.errors =>
                    ToolsOf(EntriesOf(i)) = LoadedTools(last.scanned[i])
        /\ ~last.skills_dir.exists => (last.ret = 0 /\ Reg = last.pre)

\* a file with several tools is counted next to a file with no export
C5_Witness ==
    /\ last.op = "discover_and_load"
    /\ last.ret >= 2
    /\ \E i \in 1..Len(last.scanned) :
          /\ NoRecognisedExport(last.scanned[i])
          /\ last.scanned[i].load = "ok"
    /\ Len(last.pre.skills) > 0

-----------------------------------------------------------------------------
(* Discovery: names *)

\* s with the prefix p taken from its front, and nothing else changed
StripPrefix(s, p) == IF StartsWith(s, p) THEN SubSeq(s, Len(p) + 1, Len(s)) ELSE s

StemOf(entry) == last.scanned[entry.file].stem

\* C6: a file that yields exactly one tool is registered under its stem with
\* the prefix "<module_name>_" stripped from the front, the rest of the stem
\* unchanged.
C6_PrefixStripped ==
    last.op = "discover_and_load" =>
        \A j \in 1..Len(last.log) :
            last.log[j].n = 1 =>
                last.log[j].name = StripPrefix(StemOf(last.log[j]), last.module_name \o <<"_">>)

\* the name a tool of a multi-tool file gets: <base>_<toolname>, or
\* <base>_<fallback> for a tool without a name attribute
MultiName(entry, fallback) ==
    BaseSkillName(StemOf(entry), last.module_name) \o <<"_">>
    \o (IF IsNone(entry.tool.name) THEN fallback ELSE entry.tool.name[1])

\* the last register call of the scan under the entry's name is the entry's
LastUnderName(j) == \A k \in (j + 1)..Len(last.log) : last.log[k].name # last.log[j].name

-----------------------------------------------------------------------------
(* Discovery: exports *)

ExportOrder == <<"tools", "tool", "skill", "get_tool", "create_tool">>

\* the module has the export
Present(f, export) ==
    CASE export = "tools" -> f.tools.kind = "list"
      [] export = "tool" -> ~IsNone(f.tool)
      [] export = "skill" -> ~IsNone(f.skill)
      [] export = "get_tool" -> f.get_tool.kind # "absent"
      [] export = "create_tool" -> f.create_tool.kind # "absent"

\* the place in ExportOrder of the first export the module has, 0 for none
FirstExport(f) ==
    IF \E k \in 1..Len(ExportOrder) : Present(f, ExportOrder[k])
    THEN CHOOSE k \in 1..Len(ExportOrder) :
             /\ Present(f, ExportOrder[k])
             /\ \A h \in 1..(k - 1) : ~Present(f, ExportOrder[h])
    ELSE 0

\* the export is a factory that raises
FactoryRaises(f, k) ==
    \/ k = 4 /\ f.get_tool.kind = "raise"
    \/ k = 5 /\ f.create_tool.kind = "raise"

\* the tools the export at place k gives
Exported(f, k) ==
    CASE k = 0 -> <<>>
      [] k = 1 -> f.tools.items
      [] k = 2 -> <<f.tool[1]>>
      [] k = 3 -> <<f.skill[1]>>
      [] k = 4 -> <<f.get_tool.ret[1]>>
      [] k = 5 -> <<f.create_tool.ret[1]>>

\* the module metadata: `metadata` if the module has it, else `METADATA`
FirstMetadata(f) == IF f.metadata.kind # "absent" THEN f.metadata ELSE f.METADATA

\* the module has exactly one of the five exports
OneForm(f) == Cardinality({k \in 1..Len(ExportOrder) : Present(f, ExportOrder[k])}) = 1

\* the tools of every file come from its first export in the order tools (a
\* list), tool, skill, get_tool(), create_tool(); the metadata from
\* `metadata` before `METADATA`
ExportPriority ==
    \A i \in 1..Len(last.scanned) :
        LET f == last.scanned[i]
            k == FirstExport(f)
        IN  f.load = "ok" =>
               IF \/ FactoryRaises(f, k)
                  \/ Len(Exported(f, k)) > 0 /\ FirstMetadata(f).kind = "malformed"
               THEN i \in last.errors /\ EntriesOf(i) = <<>>
               ELSE IF BeforeRaise(Exported(f, k), FirstMetadata(f)) # Exported(f, k)
               THEN /\ i \in last.errors
                    /\ ToolsOf(EntriesOf(i)) = BeforeRaise(Exported(f, k), FirstMetadata(f))
               ELSE /\ i \notin last.errors
                    /\ ToolsOf(EntriesOf(i)) = Exported(f, k)
                    /\ \A j \in 1..Len(EntriesOf(i)) :
                          LET m == EntriesOf(i)[j].metadata
                          IN  IF FirstMetadata(f).kind = "meta"
                              THEN /\ m.visibility = FirstMetadata(f).m[1].visibility
                                   /\ m.tags = FirstMetadata(f).m[1].tags
                              ELSE m.visibility = "public" /\ m.tags = <<>>

\* C8 as stated: the first export in the order decides, and a file with
\* exactly one of the five exports (read: one that loads without raising)
\* registers at least one tool.
C8_OneFormRegisters ==
    last.op = "discover_and_load" =>
        /\ ExportPriority
        /\ \A i \in 1..Len(last.scanned) :
              (/\ last.scanned[i].load = "ok"
               /\ i \notin last.errors
               /\ OneForm(last.scanned[i])) => Len(EntriesOf(i)) >= 1

\* C8, amended: the first export in the order decides; a file that loads
\* without raising and has exactly one of the five exports registers at least
\* one tool unless that export is an empty `tools` list; an empty `tools`
\* list registers nothing and still hides the exports after it.
C8_ExportPriority ==
    last.op = "discover_and_load" =>
        /\ ExportPriority
        /\ \A i \in 1..Len(last.scanned) :
              LET f == last.scanned[i]
              IN  /\ (/\ f.load = "ok"
                      /\ i \notin last.errors
                      /\ OneForm(f)
                      /\ ~(f.tools.kind = "list" /\ Len(f.tools.items) = 0))
                         => Len(EntriesOf(i)) >= 1
                  /\ (f.tools.kind = "list" /\ Len(f.tools.items) = 0)
                         => EntriesOf(i) = <<>>

\* a file has an empty `tools` list and a `tool`, and registers nothing;
\* another has a `tools` list and a `tool`, and registers the list
C8_Witness ==
    /\ last.op = "discover_and_load"
    /\ \E i \in 1..Len(last.scanned) :
          /\ last.scanned[i].load = "ok"
          /\ last.scanned[i].tools.kind = "list"
          /\ Len(last.scanned[i].tools.items) = 0
          /\ ~IsNone(last.scanned[i].tool)
          /\ EntriesOf(i) = <<>>
    /\ \E i \in 1..Len(last.scanned) :
          /\ ~IsNone(last.scanned[i].tool)
          /\ Len(EntriesOf(i)) = 2

\* C9: a tool registered from a file with a module metadata gets a clone of
\* it (same tags, visibility, version, author, dependencies) named with the
\* skill name; from a file without one, a record with the skill name, the
\* tool's description and the defaults (visibility public).  The registry
\* holds that record.
C9_MetadataCloned ==
    last.op = "discover_and_load" =>
        \A j \in 1..Len(last.log) :
            LET e == last.log[j]
                source == FindMetadata(last.scanned[e.file])
            IN  /\ e.metadata.name = e.name
                /\ IF source.kind = "meta"
                   THEN /\ e.metadata.tags = source.m[1].tags
                        /\ e.metadata.visibility = source.m[1].visibility
                        /\ e.metadata.version = source.m[1].version
                        /\ e.metadata.author = source.m[1].author
                        /\ e.metadata.dependencies = source.m[1].dependencies
                   ELSE /\ source.kind = "none"
                        /\ e.metadata.description =
                             (IF e.tool.description.kind = "str"
                              THEN e.tool.description.s ELSE <<>>)
                        /\ e.metadata.visibility = "public"
                        /\ e.metadata.tags = <<>>
                        /\ e.metadata.dependencies = <<>>
                /\ LastUnderName(j) => get_metadata(skills, e.name) = Some(e.metadata)

\* several tools of one file share a module metadata whose name is not
\* theirs, and a file without metadata is registered in the same scan
C9_Witness ==
    /\ last.op = "discover_and_load"
    /\ \E j \in 1..Len(last.log) :
          /\ last.log[j].n >= 2
          /\ FindMetadata(last.scanned[last.log[j].file]).kind = "meta"
          /\ FindMetadata(last.scanned[last.log[j].file]).m[1].name # last.log[j].name
          /\ get_metadata(skills, last.log[j].name) = Some(last.log[j].metadata)
    /\ \E j \in 1..Len(last.log) :
          FindMetadata(last.scanned[last.log[j].file]).kind = "none"

-----------------------------------------------------------------------------
(* Search *)

\* q occurs in s when letter case is ignored: at some offset every character
\* of q is, case aside, the character of s there
OccursIgnoringCase(q, s) ==
    \E off \in 0..(Len(s) - Len(q)) :
        \A j \in 1..Len(q) : LowerChar(q[j]) = LowerChar(s[off + j])

\* the record passes the query filter, if one is given
PassesQuery(m, query) ==
    Len(query) = 0 \/ OccursIgnoringCase(query, m.name) \/ OccursIgnoringCase(query, m.description)

\* the record passes the tag filter, if one is given
PassesTags(m, tags) ==
    \/ IsNone(tags)
    \/ Len(tags[1]) = 0
    \/ \E t \in Range(tags[1]) : t \in Range(m.tags)

\* the places of the registered records that pass both filters
Hits(query, tags) ==
    {i \in 1..Len(skills) : PassesQuery(skills[i].v, query) /\ PassesTags(skills[i].v, tags)}

\* C10: search returns exactly the registered records that pass both the
\* query filter (a case-insensitive substring of the name or description)
\* and the tag filter (one listed tag among the record's tags), an omitted or
\* empty filter passing everything; each such record once.
C10_SearchBothFilters ==
    last.op = "search" =>
        /\ Len(last.ret) = Cardinality(Hits(last.query, last.tags))
        /\ \A i \in 1..Len(skills) :
              (i \in Hits(last.query, last.tags))
                  <=> (\E j \in 1..Len(last.ret) : last.ret[j] = skills[i].v)

\* a query in another letter case and a tag list are given; one record passes
\* both, another passes the query and none of the tags
C10_Witness ==
    /\ last.op = "search"
    /\ Len(last.query) > 0
    /\ StrLower(last.query) # last.query
    /\ ~IsNone(last.tags)
    /\ Len(last.ret) >= 1
    /\ \E i \in 1..Len(skills) :
          /\ PassesQuery(skills[i].v, last.query)
          /\ ~PassesTags(skills[i].v, last.tags)


-----------------------------------------------------------------------------
(* Predicate-based accessors *)

\* the names, in registry order, whose metadata satisfies the predicate
NamesSatisfying(filter_fn) ==
    LET keep(i) == IsNone(filter_fn) \/ combined_filter(filter_fn[1], skills[i].v)
        F[i \in 0..Len(skills)] ==
            IF i = 0 THEN <<>>
            ELSE IF keep(i) THEN Append(F[i - 1], skills[i].k) ELSE F[i - 1]
    IN  F[Len(skills)]

\* C11: list_skills(p) returns exactly the registered names whose metadata
\* satisfies p, each once, and get_all_tools(p) returns exactly the tools
\* registered under those names; without a predicate both return every entry.
C11_FilteredAccessors ==
    /\ last.op = "list_skills" =>
          /\ last.ret = NamesSatisfying(last.filter_fn)
          /\ IsNone(last.filter_fn) => Range(last.ret) = registered
    /\ last.op = "get_all_tools" =>
          LET names == NamesSatisfying(last.filter_fn)
          IN  /\ Len(last.ret) = Len(names)
              /\ \A j \in 1..Len(names) : Some(last.ret[j]) = get_tool(tools, names[j])
              /\ IsNone(last.filter_fn) => Len(last.ret) = Cardinality(registered)

\* a predicate that keeps some tools of the registry and drops others
C11_Witness ==
    /\ last.op = "get_all_tools"
    /\ ~IsNone(last.filter_fn)
    /\ ~IsNone(last.filter_fn[1].custom)
    /\ Len(last.ret) > 0
    /\ Len(last.ret) < Len(tools)

-----------------------------------------------------------------------------
(* The read accessors' frame and their results on missing names *)

ReadOps == {"list_skills", "search", "get_all_tools", "get_metadata", "get_tool",
            "len", "contains"}

\* C12: a call of list_skills, search, get_all_tools, get_metadata, get_tool,
\* len or contains, after any calls and any number of times, leaves the
\* name-to-metadata and name-to-tool mappings, every stored record and the
\* loaded modules as they were.
C12_ReadsPure ==
    [][last'.op \in ReadOps =>
          /\ skills' = skills
          /\ tools' = tools
          /\ modules' = modules
          /\ registered' = registered]_vars

\* a search that returns records of a registry two mutating calls have built
C12_Witness ==
    /\ last.op = "search"
    /\ Len(last.ret) > 0
    /\ Len(skills) >= 2
    /\ nops = MaxOps

\* C13: get_metadata and get_tool return None for a name that is not
\* registered and the stored value for one that is, and the call leaves the
\* registry unchanged; every read accessor returns a value in every state.
C13_MissingIsNone ==
    [][last'.op \in {"get_metadata", "get_tool"} =>
          LET d == IF last'.op = "get_metadata" THEN skills ELSE tools
          IN  /\ last'.skill_name \notin registered => last'.ret = None
              /\ last'.skill_name \in registered =>
                    \E i \in 1..Len(d) : d[i].k = last'.skill_name /\ last'.ret = Some(d[i].v)
              /\ skills' = skills
              /\ tools' = tools]_vars

\* a lookup of a name that is not there, in a registry that holds others
C13_Witness ==
    /\ last.op = "get_tool"
    /\ last.skill_name \notin registered
    /\ last.ret = None
    /\ Len(tools) > 0

-----------------------------------------------------------------------------
(* Exposure: the middleware and the assembled filter *)

\* the visibility check and the caller's predicate, both
Exposed(f, meta) ==
    /\ ~f.filter_by_visibility \/ meta.visibility \in f.allowed_visibilities
    /\ f.custom = None \/ \E i \in 1..Len(meta.tags) : meta.tags[i] = f.custom[1]

\* the names of sk, in its order, whose record is exposed under f
ExposedNames(sk, f) ==
    LET F[i \in 0..Len(sk)] ==
            IF i = 0 THEN <<>>
            ELSE IF Exposed(f, sk[i].v) THEN Append(F[i - 1], sk[i].k) ELSE F[i - 1]
    IN  F[Len(sk)]

\* the tools tl holds under the names
ToolsAt(tl, names) ==
    [j \in 1..Len(names) |-> tl[CHOOSE i \in 1..Len(tl) : tl[i].k = names[j]].v]

\* C14: after every call of the agent's SkillMiddleware the `tools` of the
\* input are the tools of the skills that pass the filter in the registry as
\* it is at that call, whatever the input carried and whatever visibility,
\* tags or registrations changed since the agent was built or last called.
C14_MiddlewareCurrent ==
    (last.op = "turn" /\ last.raised = "") =>
        /\ agent_input.tools = ToolsAt(tools, ExposedNames(skills, last.filter_fn[1]))
        /\ agent_input.messages = last.input.messages

\* a visibility changed after the agent was built, and the next call exposes
\* another tool list than its input carried
C14_Witness ==
    /\ last.op = "turn"
    /\ last.raised = ""
    /\ last.after = "set_visibility"
    /\ agent_input.tools # last.input.tools
    /\ Len(agent_input.tools) > 0

\* the filter create_skill_agent builds from the configuration and filter_fn
BuiltFilter(cfg, filter_fn) ==
    [filter_by_visibility |-> cfg.filter_by_visibility = PyBool(TRUE),
     allowed_visibilities |-> cfg.allowed_visibilities,
     custom |-> filter_fn]

\* C15: a skill is exposed by create_skill_agent iff (filter_by_visibility is
\* off or its visibility is allowed) and (no caller predicate was given or it
\* holds for the skill's metadata); the initial tool list, the skill list of
\* the system prompt and the SkillMiddleware all expose exactly these skills.
C15_CombinedFilterIsAnd ==
    (last.op = "create_skill_agent" /\ last.state_schema # None) =>
        LET f == BuiltFilter(last.config, last.filter_fn)
            names == ExposedNames(last.reg.skills, f)
            exposed == ToolsAt(last.reg.tools, names)
        IN  /\ last.all_tools = exposed
            /\ last.available_skills = names
            /\ agent # None =>
                  /\ agent[1].agent.tools = exposed
                  /\ agent[1].agent.system_prompt = generate_system_prompt(names)
                  /\ agent[1].agent.middleware # None =>
                        \A i \in 1..Len(agent[1].agent.middleware[1]) :
                            middleware_call(skills, tools,
                                            agent[1].agent.middleware[1][i].filter_fn,
                                            [tools |-> <<>>, messages |-> <<>>]).tools = exposed

\* visibility filtering and a caller predicate together expose a part of the
\* registry, to an agent that has the middleware
C15_Witness ==
    /\ last.op = "create_skill_agent"
    /\ agent # None
    /\ last.filter_fn # None
    /\ last.config.filter_by_visibility = PyBool(TRUE)
    /\ Len(last.all_tools) > 0
    /\ Len(last.all_tools) < Len(tools)
    /\ agent[1].agent.middleware # None
    /\ Len(agent[1].agent.middleware[1]) = 1

-----------------------------------------------------------------------------
(* Configuration *)

\* the key/value members a construction was given
Members(way, input) ==
    IF way \in {"init", "from_dict"} THEN input
    ELSE IF way = "from_json" THEN input.members
    ELSE input.text.members

\* the input is read as a dict of known keys
Readable(way, input) ==
    /\ way = "from_json" => input.kind = "object"
    /\ way = "load" => input.exists /\ input.text.kind = "object"
    /\ \A i \in 1..Len(Members(way, input)) : Members(way, input)[i].k \in Fields

\* the state_mode given: the default, a string, or "(none)" for a value that is
\* no string
ModeGiven(way, input) ==
    LET ms == Members(way, input)
        at == {i \in 1..Len(ms) : ms[i].k = "state_mode"}
        v == ms[CHOOSE i \in at : TRUE].v
    IN  IF at = {} THEN "replace"
        ELSE IF way \in {"init", "from_dict"}
             THEN (IF v.t = "str" THEN v.s ELSE "(none)")
             ELSE (IF v.j = "string" THEN v.s ELSE "(none)")

StateOf(mode) ==
    IF mode = "replace" THEN "SkillState"
    ELSE IF mode = "accumulate" THEN "SkillStateAccumulative"
    ELSE "SkillStateFIFO"

\* C16: a SkillSystemConfig built directly, by from_dict, by from_json or by
\* load from readable input is built iff its state_mode is replace, accumulate
\* or fifo, and the construction raises ValueError otherwise; assembly selects
\* SkillState, SkillStateAccumulative or SkillStateFIFO for these modes and
\* raises ValueError for any other.
C16_StateModeValidated ==
    /\ (last.op = "SkillSystemConfig" /\ Readable(last.way, last.input)) =>
          LET mode == ModeGiven(last.way, last.input)
          IN  IF mode \in {"replace", "accumulate", "fifo"}
              THEN /\ last.raised = ""
                   /\ config # None
                   /\ config[1].state_mode = PyStr(mode)
              ELSE /\ last.raised = "ValueError"
                   /\ config = None
    /\ last.op = "create_skill_agent" =>
          IF last.config.state_mode.t = "str"
             /\ last.config.state_mode.s \in {"replace", "accumulate", "fifo"}
          THEN /\ last.state_schema = Some(StateOf(last.config.state_mode.s))
               /\ (agent # None /\ agent[1].agent.tier = "full") =>
                     agent[1].agent.state_schema = last.state_schema
          ELSE /\ last.raised = "ValueError"
               /\ agent = None

\* an agent assembled in accumulate mode with the state schema passed on
C16_Witness ==
    /\ last.op = "create_skill_agent"
    /\ last.config.state_mode = PyStr("accumulate")
    /\ agent # None
    /\ agent[1].agent.state_schema = Some("SkillStateAccumulative")

-----------------------------------------------------------------------------
(* Agent construction tiers *)

Tiers == <<"full", "middleware", "plain">>

\* C20: the attempts are a prefix of full, middleware-only, plain; every
\* attempt but the last failed, with a TypeError; the agent returned is the
\* one of the last attempt when that attempt succeeds, built with its tier's
\* keywords; when it fails nothing is returned and its exception is raised,
\* in particular the exception of the plain tier.
C20_TieredFallback ==
    (last.op = "create_skill_agent" /\ last.state_schema # None) =>
        LET n == Len(last.attempts)
        IN  /\ n \in 1..3
            /\ last.attempts = SubSeq(Tiers, 1, n)
            /\ \A k \in 1..(n - 1) : last.host[Tiers[k]] = "TypeError"
            /\ n < 3 => last.host[Tiers[n]] # "TypeError"
            /\ IF last.host[Tiers[n]] = "ok"
               THEN /\ last.raised = ""
                    /\ agent # None
                    /\ agent[1].agent.tier = Tiers[n]
                    /\ (agent[1].agent.state_schema # None) <=> n = 1
                    /\ (agent[1].agent.middleware # None) <=> n < 3
               ELSE /\ last.raised = last.host[Tiers[n]]
                    /\ agent = None

\* two tiers rejected the keywords and the plain one built the agent
C20_Witness ==
    /\ last.op = "create_skill_agent"
    /\ last.attempts = Tiers
    /\ last.raised = ""
    /\ agent # None
    /\ agent[1].agent.tier = "plain"

-----------------------------------------------------------------------------
(* Conversation state *)

\* the last n elements of s, all of s when it has fewer
LastN(s, n) == IF Len(s) <= n THEN s ELSE SubSeq(s, Len(s) - n + 1, Len(s))

\* C17: after every append to a SkillStateFIFO with cap max_size >= 0 the
\* state holds at most max_size messages.
C17_CapRespected ==
    (state # None /\ state[1].cls = "SkillStateFIFO" /\ last.op = "append") =>
        Len(state[1].messages) <= state[1].max_size

\* C18: a SkillStateFIFO that started empty holds, after any appends, the last
\* min(|S|, max_size) elements of the concatenation S of the appended
\* batches, in their order.
C18_LastOfAppended ==
    (state # None /\ state[1].cls = "SkillStateFIFO" /\ last.op = "append"
     /\ last.start = <<>>) =>
        state[1].messages = LastN(last.all, state[1].max_size)

\* C19: after any accumulate calls the messages of a SkillStateAccumulative
\* are its initial messages followed by every batch in call order, and its
\* intermediate_steps are the initial ones followed by the steps passed;
\* nothing else of the state changes.
C19_AccumulateAppends ==
    (state # None /\ state[1].cls = "SkillStateAccumulative") =>
        /\ state[1].messages = last.start \o last.all
        /\ state[1].intermediate_steps = last.start_steps \o last.steps
        /\ state[1].skill_history = <<>>

\* several batches and steps were accumulated on a state that had messages
C19_Witness ==
    /\ state # None
    /\ state[1].cls = "SkillStateAccumulative"
    /\ last.op = "accumulate"
    /\ nops = MaxAppends
    /\ Len(last.start) > 0
    /\ Len(last.all) >= 3
    /\ Len(last.steps) >= 2

\* C21 as stated: a failure reaches the caller only from the base attempt,
\* after the full and the middleware-only attempts were both made.
C21_NoHardFailure ==
    (last.op = "create_skill_agent" /\ last.state_schema # None /\ last.raised # "") =>
        /\ last.attempts = Tiers
        /\ last.raised = last.host["plain"]

\* C21, amended: a TypeError of the full or of the middleware-only attempt is
\* not propagated and the next tier is attempted; any other exception of these
\* attempts is propagated at once, with no further attempt; every failure of
\* the base attempt is propagated.
C21_TypeErrorFallsBack ==
    (last.op = "create_skill_agent" /\ last.state_schema # None) =>
        LET full == last.host["full"]
            mw == last.host["middleware"]
            n == Len(last.attempts)
        IN  /\ full = "TypeError" => n >= 2
            /\ (full = "TypeError" /\ mw = "TypeError") => n = 3
            /\ full \notin {"ok", "TypeError"} =>
                  n = 1 /\ last.raised = full /\ agent = None
            /\ (full = "TypeError" /\ mw \notin {"ok", "TypeError"}) =>
                  n = 2 /\ last.raised = mw /\ agent = None
            /\ (n = 3 /\ last.host["plain"] # "ok") =>
                  last.raised = last.host["plain"] /\ agent = None
            /\ last.raised = "TypeError" => n = 3

\* the full attempt fails with another exception than TypeError while the
\* lower tiers would have built an agent
C21_Witness ==
    /\ last.op = "create_skill_agent"
    /\ last.host["full"] = "RuntimeError"
    /\ last.host["middleware"] = "ok"
    /\ last.host["plain"] = "ok"
    /\ last.attempts = <<"full">>
    /\ last.raised = "RuntimeError"
    /\ agent = None

-----------------------------------------------------------------------------
(* C22: the search cache never holds more than 50 entries and never evicts: across
   every search the entries already cached stay as they are, a full cache takes no
   new key, a hit returns the cached object without an API call, and a miss returns
   the API's answer whether or not it was stored. *)
C22_BoundedNoEviction ==
    [][ LET old == search_cache.cache
            new == search_cache'.cache
        IN  /\ Len(new) <= CacheLimit
            /\ Len(new) >= Len(old)
            /\ \A i \in 1..Len(old) : new[i] = old[i]
            /\ Len(old) = CacheLimit => new = old
            /\ last'.op = "internet_search" =>
                  /\ last'.hit = DictHas(old, last'.key)
                  /\ last'.hit => /\ last'.ret = DictGet(old, last'.key)
                                  /\ search_cache' = search_cache
                  /\ (~last'.hit /\ last'.raised = "") =>
                        /\ last'.ret = Some(search_cache'.calls)
                        /\ search_cache'.calls = search_cache.calls + 1
                        /\ Len(old) < CacheLimit => new = Append(old, [k |-> last'.key, v |-> search_cache'.calls])
                  /\ last'.raised # "" => search_cache' = search_cache /\ last'.ret = None
      ]_vars

\* a search for an uncached key on a full cache returned the API's answer and stored nothing
C22_Witness ==
    /\ last.op = "internet_search"
    /\ Len(last.before.cache) = CacheLimit
    /\ ~last.hit /\ last.raised = ""
    /\ last.ret = Some(search_cache.calls)
    /\ search_cache.cache = last.before.cache
    /\ ~DictHas(search_cache.cache, last.key)

-----------------------------------------------------------------------------
(* C23: the calculator never raises: whatever the expression and whatever its
   evaluation does, the call returns a text that begins with "Result:" or with
   "Error:"; a disallowed character gives the fixed message without evaluating, a
   division by zero gives "Error: Division by zero", a value gives "Result: <value>". *)
C23_CalculatorReturnsText ==
    last.op = "calculator" =>
        LET bad == \E i \in 1..Len(last.expression) : last.expression[i] \notin allowed_chars
        IN  /\ last.raised = ""
            /\ Len(last.ret) >= 2
            /\ last.ret[1] \in {"Result:", "Error:"}
            /\ bad => last.ret = <<"Error:", " Only basic arithmetic operations (+, -, *, /) are allowed">>
            /\ (~bad /\ last.outcome.raised = "ZeroDivisionError") =>
                   last.ret = <<"Error:", " Division by zero">>
            /\ (last.ret[1] = "Result:") <=> (~bad /\ last.outcome.raised = "")

\* an allowed expression whose evaluation raised a malformed-expression error
C23_Witness ==
    /\ last.op = "calculator"
    /\ last.expression = <<"1", "(">>
    /\ last.outcome.raised = "SyntaxError"
    /\ last.raised = ""
    /\ last.ret = <<"Error:", " ", "SyntaxError">>

-----------------------------------------------------------------------------
(* C24: a line that is one of the commands help, new, memories, memory <key>, clear,
   quit or exit, in any letter case and including `memory` without a key, is handled
   in the loop and never handed to the agent; every other non-empty line is handed to
   the agent exactly once; quit and exit end the loop. *)
IsCommand(user_input) ==
    LET low == StrLower(user_input)
    IN  \/ low \in {CmdHelp, CmdNew, CmdMemories, CmdClear, CmdQuit, CmdExit}
        \/ low = RStrip(CmdMemoryPrefix)
        \/ StartsWith(low, CmdMemoryPrefix)

C24_CommandsHandledLocally ==
    (last.op = "chat" /\ last.read = "ok") =>
        /\ IsCommand(last.user_input) => cli.forwarded = last.before.forwarded
        /\ (last.user_input # << >> /\ ~IsCommand(last.user_input)) =>
               cli.forwarded = Append(last.before.forwarded, last.user_input)
        /\ StrLower(last.user_input) \in {CmdQuit, CmdExit} => ~cli.running

\* the line `memory` was read and handed to the agent
C24_MemoryWithoutKeyForwarded ==
    /\ last.op = "chat" /\ last.read = "ok"
    /\ last.user_input = RStrip(CmdMemoryPrefix)
    /\ cli.forwarded = Append(last.before.forwarded, last.user_input)

\* the branch that prints the usage of `memory` is never taken
C24_UsageNeverShown == last.op = "chat" => last.shown # "usage"

-----------------------------------------------------------------------------
(* C25: when the agent call, a memory lookup or the reading of the line raises an
   Exception, the error is shown and the loop goes on: the history and the thread
   id are those before the turn, and the failed call was made once and is not made
   again by the loop. *)
C25_ErrorKeepsLoopAndState ==
    (last.op = "chat" /\ (last.raised \notin {"", "KeyboardInterrupt"}
                           \/ (last.raised = "" /\ last.shown = "error"))) =>
        /\ last.shown = "error"
        /\ cli.running
        /\ cli.messages = last.before.messages
        /\ cli.thread_id = last.before.thread_id
        /\ \/ cli.forwarded = last.before.forwarded
           \/ cli.forwarded = Append(last.before.forwarded, last.user_input)

\* the agent call of the second turn failed after a first turn had been stored
C25_Witness ==
    /\ last.op = "chat" /\ last.read = "ok" /\ last.raised = "Exception"
    /\ last.user_input = <<"h", "i">>
    /\ Len(last.before.messages) = 2
    /\ cli.messages = last.before.messages
    /\ cli.running

-----------------------------------------------------------------------------
(* C26: a SkillMiddleware call overwrites the tools entry of its input whatever the
   entry held before (a list, None, or nothing), and changes nothing else: the other
   keys of the input, the conversation state and the registry are as before; a call
   that follows another call with no registry change in between gives the same tools. *)
C26_OverwritesToolsOnly ==
    last.op = "turn" =>
        /\ last.raised = ""
        /\ agent_input.tools = get_all_tools(skills, tools, last.filter_fn)
        /\ agent_input.messages = last.input.messages
        /\ DOMAIN agent_input = DOMAIN last.input
        /\ skills = last.before.skills /\ tools = last.before.tools
        /\ modules = last.before.modules /\ state = last.before.state
        /\ (last.after_returned /\ last.held = "list") => agent_input.tools = last.input.tools

\* whenever the call returns, it has done exactly what the claim says
C26_OverwritesWhenReturning ==
    (last.op = "turn" /\ last.raised = "") =>
        /\ agent_input.tools = get_all_tools(skills, tools, last.filter_fn)
        /\ agent_input.messages = last.input.messages
        /\ DOMAIN agent_input = DOMAIN last.input
        /\ skills = last.before.skills /\ tools = last.before.tools
        /\ modules = last.before.modules /\ state = last.before.state
        /\ (last.after_returned /\ last.held = "list") => agent_input.tools = last.input.tools

\* a verbose middleware called on an input whose tools entry is None raised
C26_VerboseRaisesOnNone ==
    /\ last.op = "turn" /\ last.held = "None" /\ Truthy(last.verbose)
    /\ last.raised = "TypeError"
    /\ agent_input = last.input

-----------------------------------------------------------------------------
(* C27: discovery has no rollback: when the loading of a file fails, every entry
   registered before the failure, by an earlier file or by an earlier tool of the
   failing file, is still a registry entry (holding its tool and its metadata
   unless a later register call of the scan used the same name) and is counted in
   the value returned; the entries the registry had before the call are kept; the
   failing file is loaded once: its tools before the failing one are registered
   once each, in order, and none after it. *)
C27_NoRollback ==
    last.op = "discover_and_load" =>
        /\ last.ret = Len(last.log)
        /\ \A j, k \in 1..Len(last.log) : j < k => last.log[j].file <= last.log[k].file
        /\ \A j \in 1..Len(last.pre.skills) : contains(skills, last.pre.skills[j].k)
        /\ \A i \in last.errors :
              /\ \A j \in 1..Len(last.log) :
                    last.log[j].file <= i =>
                        /\ contains(skills, last.log[j].name)
                        /\ LastUnderName(j) =>
                              /\ get_tool(tools, last.log[j].name) = Some(last.log[j].tool)
                              /\ get_metadata(skills, last.log[j].name)
                                   = Some(last.log[j].metadata)
              /\ last.ret >= Cardinality({j \in 1..Len(last.log) : last.log[j].file <= i})
              /\ ToolsOf(EntriesOf(i)) = LoadedTools(last.scanned[i])
              /\ \A j \in 1..Len(EntriesOf(i)) : EntriesOf(i)[j].idx = j - 1

\* the second file of the scan failed at its second tool: the first file's entries
\* and the second file's first tool are registered and counted
C27_Witness ==
    /\ last.op = "discover_and_load"
    /\ last.errors = {2}
    /\ Len(EntriesOf(1)) >= 1
    /\ Len(EntriesOf(2)) = 1
    /\ Len(FindTools(last.scanned[2]).ts) = 2
    /\ last.ret = Len(EntriesOf(1)) + 1
    /\ \A j \in 1..Len(last.log) : contains(skills, last.log[j].name)

-----------------------------------------------------------------------------
(* C28 as stated: for discover_and_load called on an empty registry, the value
   returned equals len(registry) afterwards. *)
C28_CountIsLen ==
    (last.op = "discover_and_load" /\ last.pre = EmptyReg) => last.ret = len(skills)

(* C28, amended: for discover_and_load called on an empty registry, the value
   returned is the number of register calls and len(registry) afterwards is the
   number of different names among them: the two are equal exactly when no two
   tools of the scan were registered under one name, and otherwise the value
   returned is the larger. *)
C28_CountIsLenIffDistinct ==
    (last.op = "discover_and_load" /\ last.pre = EmptyReg) =>
        LET names == {last.log[j].name : j \in 1..Len(last.log)}
            distinct == \A j, k \in 1..Len(last.log) :
                            j # k => last.log[j].name # last.log[k].name
        IN  /\ last.ret = Len(last.log)
            /\ len(skills) = Cardinality(names)
            /\ len(skills) <= last.ret
            /\ (last.ret = len(skills)) <=> distinct

\* one file with a list of two tools of one name: two counted, one entry
C28_Witness ==
    /\ last.op = "discover_and_load" /\ last.pre = EmptyReg
    /\ Len(last.scanned) = 1
    /\ Len(FindTools(last.scanned[1]).ts) = 2
    /\ last.errors = {}
    /\ last.ret = 2
    /\ len(skills) = 1

-----------------------------------------------------------------------------
(* C29: when create_skill_agent builds an agent with the generated prompt, the
   prompt's skill lines are "- <name>" for the registry names of the tools passed
   to the agent, one line per tool and in the order of the tools, with no line
   for a skill the filter leaves out; the prompt says that no skills are
   available exactly when no tool is passed. *)
NoSkillsLine == <<"No skills are currently available.">>

\* the names under which the registry holds the tools the filter exposes, in the
\* order of the registry's tools
PassedNames ==
    LET f == BuiltFilter(last.config, last.filter_fn)
        tl == last.reg.tools
        F[i \in 0..Len(tl)] ==
            IF i = 0 THEN <<>>
            ELSE IF /\ DictHas(last.reg.skills, tl[i].k)
                    /\ Exposed(f, DictAt(last.reg.skills, tl[i].k))
                 THEN Append(F[i - 1], tl[i].k) ELSE F[i - 1]
    IN  F[Len(tl)]

C29_PromptListsPassedTools ==
    (last.op = "create_skill_agent" /\ agent # None) =>
        LET passed == agent[1].agent.tools
            prompt == agent[1].agent.system_prompt
        IN  /\ Len(passed) = Len(PassedNames)
            /\ \A i \in 1..Len(passed) : passed[i] = DictAt(last.reg.tools, PassedNames[i])
            /\ (prompt = <<NoSkillsLine>>) <=> (Len(passed) = 0)
            /\ Len(passed) > 0 =>
                  /\ Len(prompt) = Len(passed)
                  /\ \A i \in 1..Len(passed) : prompt[i] = <<"-", " ">> \o PassedNames[i]

\* an agent was built with some tools passed and a skill filtered out, and its
\* prompt has a line per passed tool
C29_Witness ==
    /\ last.op = "create_skill_agent" /\ agent # None
    /\ Len(agent[1].agent.tools) >= 1
    /\ Len(agent[1].agent.tools) < Len(last.reg.tools)
    /\ Len(agent[1].agent.system_prompt) = Len(agent[1].agent.tools)
    /\ agent[1].agent.system_prompt[1] = <<"-", " ">> \o PassedNames[1]

-----------------------------------------------------------------------------
(* C30 as stated: for an OptimizedSearchCache with max_size >= 1, after any get and
   set calls the cache holds at most max_size entries and every cached key is in
   the access-order queue, so set never raises and the key it evicts is in the
   cache. *)
C30_QueueCoversCache ==
    lru # None =>
        /\ Len(lru[1].cache) <= lru[1].max_size
        /\ \A i \in 1..Len(lru[1].cache) :
              \E j \in 1..Len(lru[1].access_order) :
                  lru[1].access_order[j] = lru[1].cache[i].k
        /\ last.op = "set" => last.raised = ""

\* the size bound alone
C30_SizeBounded == lru # None => Len(lru[1].cache) <= lru[1].max_size

\* set never raises
C30_SetCompletes == last.op = "set" => last.raised = ""

====
